---- MODULE Spec2Model ----
(***************************************************************************)
(* A model of the markdown editor: the line diff (js/modules/diff.js),    *)
(* the storage request queue (js/modules/storage.js), snapshot history    *)
(* (js/modules/history.js) with the encryption module, the preview        *)
(* debounce, the tab manager (js/modules/tabs.js), the markdown parser    *)
(* and the service worker (sw.js).  Each component has its own            *)
(* specification over the shared variables; the variables of the other    *)
(* components stay idle.                                                  *)
(***************************************************************************)
EXTENDS Integers, Sequences, FiniteSets, TLC

VARIABLES
    \* ---- Diff (js/modules/diff.js) ----
    oldText, newText,       \* the two texts given to computeDiff (sequences of characters)
    oldLines, newLines,     \* oldText.split('\n'), newText.split('\n')
    lcs,                    \* the matrix returned by computeLCS
    bi, bj,                 \* i and j of the backtracking loop of buildDiffFromLCS
    operations,             \* the operations array being built
    dpc,                    \* position in computeDiff: "call" | "backtrack" | "done"
    \* ---- Storage (js/modules/storage.js) ----
    isReady,                \* Storage.isReady
    useLocalStorageFallback,\* Storage.useLocalStorageFallback
    ops,                    \* the operations chained on Storage.requestQueue, in enqueue order
    documents,              \* the documents store (a set of records, keyed by id)
    snapshots,              \* the snapshots store
    settings,               \* the settings store (key -> value)
    nextId,                 \* source of generateId()
    now,                    \* the wall clock read by new Date()
    calls,                  \* number of calls the client of the Storage spec has made
    \* ---- Encryption (unnamed/part_000) and History (js/modules/history.js) ----
    encryption,             \* Encryption.passphrase and Encryption.isUnlocked
    timers,                 \* History.timers: the running intervals
    procs,                  \* the async calls of History, in call order
    stopped,                \* documents whose interval a start for another document cleared
    starts,                 \* number of startAutoSnapshot calls made
    intervals,              \* the intervals made by setInterval, by id
    cryptoCalls,            \* the calls made on the Encryption instance directly, in call order
    \* ---- Preview (unnamed/part_003) ----
    ptime,                  \* the time in milliseconds
    renderTimeout,          \* Preview.renderTimeout: a timer id, 0 for null
    ptimers,                \* the timers made by setTimeout, by id
    doRenders,              \* the calls of doRender made so far
    lastContent,            \* Preview.lastContent
    container,              \* Preview.container.innerHTML
    \* ---- Tabs (js/modules/tabs.js) ----
    tabs,                   \* Tabs.tabs
    activeTabId,            \* Tabs.activeTabId
    closers,                \* the closeTab calls, in call order
    \* ---- Parser (unnamed/part_001) ----
    markdown,               \* the argument of parse
    parser,                 \* the fields of the Parser that parseBlocks writes
    html,                   \* the html of parse and, in the end, what parse returns
    parserPc,               \* position in parse: "call" | "sanitize" | "done"
    sanitizer,              \* what sanitize ran: "none" | "DOMPurify" | "fallback"
    returned,               \* the calls of parse on one Parser that returned: argument and result
    \* ---- Service worker (sw.js) ----
    swScope,                \* the directory of self.location, where the editor is served
    swState,                \* "parsed" | "installed" | "activated"
    cache,                  \* the responses in the cache CACHE_NAME, by url
    events,                 \* the fetch events, in the order they were dispatched
    \* ---- Editor (js/modules/editor.js) ----
    editor,                 \* the textarea's value and the Editor's lastContent, isComposing and two stacks
    changeEvents,           \* the contents the onChange callback was called with
    editorCall,             \* the last call made on the Editor, with the number of change events before it
    editorCalls,            \* number of calls made on the Editor
    editorLog,              \* the content the Editor started from, then each call and the content after it
    \* ---- Scroll synchronisation (js/app.js setupScrollSync) ----
    syncTime,               \* the time in milliseconds
    sync,                   \* isEditorScrolling, isPreviewScrolling and the inThrottle of the two throttled listeners
    syncTimers,             \* the timers made by setTimeout in setupScrollSync and throttle
    syncLog,                \* the scroll positions written: the pane that scrolled and the time
    scrolls,                \* number of scroll events dispatched
    \* ---- App (js/app.js) with its tabs, editor, storage and history ----
    appTabs,                \* the tabs of the Tabs module: content (null while not loaded), unsaved, title, encrypted
    activeTab,              \* Tabs.activeTabId
    appEditor,              \* the editor: its content and readOnly
    appDocuments,           \* the documents in storage, by id
    queue,                  \* the storage operations enqueued and not yet run, oldest first
    appTimers,              \* History.timers as the App starts them
    snapshotsMade,          \* the snapshots stored by the auto-snapshot timer
    lastSave,               \* the content of the last content save of each document that has completed
    crypto,                 \* settings.encryptionEnabled and Encryption.isUnlocked
    appSteps,               \* number of user actions and timer ticks so far
    \* ---- Diff.buildDiffFromLCS called with a matrix of the caller (js/modules/diff.js) ----
    build,                  \* the arguments and locals of buildDiffFromLCS, and the entries of the matrix read so far
    \* ---- Search (js/modules/search.js) ----
    search,                 \* the Search object: the find input and the options of the last search, matches, currentMatchIndex, the match count shown
    textarea,               \* this.editor.textarea.value
    replaced,               \* the ranges the last replace call overwrote: the text that stood there and the recorded match text
    \* ---- Preview.updateTheme (unnamed/part_003) ----
    themes                  \* the theme given to mermaid, the stylesheet of highlight.js and the calls of updateTheme so far

diffVars == <<oldText, newText, oldLines, newLines, lcs, bi, bj, operations, dpc>>

storageVars == <<isReady, useLocalStorageFallback, ops, documents, snapshots, settings, nextId, now>>

historyVars == <<encryption, timers, procs, stopped, starts, intervals, cryptoCalls>>

previewVars == <<ptime, renderTimeout, ptimers, doRenders, lastContent, container>>

tabsVars == <<tabs, activeTabId, closers>>

parserVars == <<markdown, parser, html, parserPc, sanitizer, returned>>

swVars == <<swScope, swState, cache, events>>

editorVars == <<editor, changeEvents, editorCall, editorCalls, editorLog>>

scrollVars == <<syncTime, sync, syncTimers, syncLog, scrolls>>

appVars == <<appTabs, activeTab, appEditor, appDocuments, queue, appTimers, snapshotsMade, lastSave, crypto, appSteps>>

buildVars == <<build>>

searchVars == <<search, textarea, replaced>>

themeVars == <<themes>>

vars == <<diffVars, storageVars, calls, historyVars, previewVars, tabsVars, parserVars, swVars, editorVars, scrollVars, appVars, buildVars, searchVars, themeVars>>

\* The variables a component leaves alone.
notDiff == <<storageVars, calls, historyVars, previewVars, tabsVars, parserVars, swVars, editorVars, scrollVars, appVars, buildVars, searchVars, themeVars>>

notStorage == <<diffVars, calls, historyVars, previewVars, tabsVars, parserVars, swVars, editorVars, scrollVars, appVars, buildVars, searchVars, themeVars>>

notClient == <<diffVars, historyVars, previewVars, tabsVars, parserVars, swVars, editorVars, scrollVars, appVars, buildVars, searchVars, themeVars>>

notHistory == <<diffVars, calls, previewVars, tabsVars, parserVars, swVars, editorVars, scrollVars, appVars, buildVars, searchVars, themeVars>>

notPreview == <<diffVars, storageVars, calls, historyVars, tabsVars, parserVars, swVars, editorVars, scrollVars, appVars, buildVars, searchVars, themeVars>>

notTabs == <<diffVars, calls, historyVars, previewVars, parserVars, swVars, editorVars, scrollVars, appVars, buildVars, searchVars, themeVars>>

notParser == <<diffVars, storageVars, calls, historyVars, previewVars, tabsVars, swVars, editorVars, scrollVars, appVars, buildVars, searchVars, themeVars>>

notSw == <<diffVars, storageVars, calls, historyVars, previewVars, tabsVars, parserVars, editorVars, scrollVars, appVars, buildVars, searchVars, themeVars>>

notEditor == <<diffVars, storageVars, calls, historyVars, previewVars, tabsVars, parserVars, swVars, scrollVars, appVars, buildVars, searchVars, themeVars>>

notScroll == <<diffVars, storageVars, calls, historyVars, previewVars, tabsVars, parserVars, swVars, editorVars, appVars, buildVars, searchVars, themeVars>>

notApp == <<diffVars, storageVars, calls, historyVars, previewVars, tabsVars, parserVars, swVars, editorVars, scrollVars, buildVars, searchVars, themeVars>>

notBuild == <<diffVars, storageVars, calls, historyVars, previewVars, tabsVars, parserVars, swVars, editorVars, scrollVars, appVars, searchVars, themeVars>>

notSearch == <<diffVars, storageVars, calls, historyVars, previewVars, tabsVars, parserVars, swVars, editorVars, scrollVars, appVars, buildVars, themeVars>>

notTheme == <<diffVars, storageVars, calls, historyVars, previewVars, tabsVars, parserVars, swVars, editorVars, scrollVars, appVars, buildVars, searchVars>>

notPreviewNorTheme == <<diffVars, storageVars, calls, historyVars, tabsVars, parserVars, swVars, editorVars, scrollVars, appVars, buildVars, searchVars>>

(***************************************************************************)
(* Generic helpers                                                         *)
(***************************************************************************)
Max(a, b) == IF a >= b THEN a ELSE b

Min(a, b) == IF a <= b THEN a ELSE b

\* All sequences over S of length at most n.
SeqsUpTo(S, n) == UNION { [1..k -> S] : k \in 0..n }

NL == "\n"

RECURSIVE SplitFrom(_, _, _, _)
\* String.prototype.split on a one-character separator: scans text from
\* position p with the current piece cur; an empty text gives one empty piece.
SplitFrom(text, sep, p, cur) ==
    IF p > Len(text) THEN <<cur>>
    ELSE IF text[p] = sep THEN <<cur>> \o SplitFrom(text, sep, p + 1, <<>>)
    ELSE SplitFrom(text, sep, p + 1, Append(cur, text[p]))

Split(text, sep) == SplitFrom(text, sep, 1, <<>>)

RECURSIVE JoinFrom(_, _, _)
JoinFrom(pieces, sep, k) ==
    IF k > Len(pieces) THEN <<>>
    ELSE IF k = Len(pieces) THEN pieces[k]
    ELSE pieces[k] \o <<sep>> \o JoinFrom(pieces, sep, k + 1)

\* Array.prototype.join with a one-character separator.
Join(pieces, sep) == JoinFrom(pieces, sep, 1)

(***************************************************************************)
(* Diff: js/modules/diff.js                                                *)
(***************************************************************************)
MaxTextLen == 3

DiffChars == {"a", "b", NL}

\* the text "x\ny"
TwoLines == <<"x", NL, "y">>

DiffTexts == SeqsUpTo(DiffChars, MaxTextLen) \cup {TwoLines}

EQUAL == 0

INSERT == 1

DELETE == 0 - 1

\* computeLCS with Math.min in the place of Math.max (line 53)
computeLCSMin(a, b) ==
    LET M[i \in 0..Len(a), j \in 0..Len(b)] ==
            IF i = 0 \/ j = 0 THEN 0
            ELSE IF a[i] = b[j] THEN M[i - 1, j - 1] + 1
            ELSE Min(M[i - 1, j], M[i, j - 1])
    IN  M

\* computeLCS: the (m+1)x(n+1) matrix, filled row by row.
computeLCS(a, b) ==
    LET M[i \in 0..Len(a), j \in 0..Len(b)] ==
            IF i = 0 \/ j = 0 THEN 0
            ELSE IF a[i] = b[j] THEN M[i - 1, j - 1] + 1
            ELSE Max(M[i - 1, j], M[i, j - 1])
    IN  M

\* The loop conditions of buildDiffFromLCS (lines 75, 76 and 80).
LoopCond(i, j) == ~(i <= 0 /\ j <= 0)

\* line 76 with newLines[0] in the place of newLines[j - 1]
EqualCondFirst(i, j) == i > 0 /\ j > 0 /\ oldLines[i] = newLines[1]

EqualCond(i, j) == i > 0 /\ j > 0 /\ oldLines[i] = newLines[j]

\* line 80 with > in the place of >=
InsertCondStrict(i, j) == j > 0 /\ (IF i = 0 THEN TRUE ELSE lcs[i, j - 1] > lcs[i - 1, j])

InsertCond(i, j) == j > 0 /\ (IF i = 0 THEN TRUE ELSE lcs[i, j - 1] >= lcs[i - 1, j])

\* The three kinds of operation buildDiffFromLCS unshifts.
EqualOp(i, j) == [type |-> EQUAL, line |-> oldLines[i], oldLine |-> i, newLine |-> j]

InsertOpStale(j) == [type |-> INSERT, line |-> newLines[Len(newLines)], oldLine |-> 0, newLine |-> j]

InsertOp(j) == [type |-> INSERT, line |-> newLines[j], oldLine |-> 0, newLine |-> j]

DeleteOp(i) == [type |-> DELETE, line |-> oldLines[i], oldLine |-> i, newLine |-> 0]

DiffStart ==
    /\ oldText \in DiffTexts /\ newText \in DiffTexts
    /\ oldLines = <<>> /\ newLines = <<>>
    /\ lcs = <<>> /\ bi = 0 /\ bj = 0
    /\ operations = <<>> /\ dpc = "call"

\* computeDiff up to the entry of the backtracking loop.
ComputeDiff ==
    /\ dpc = "call"
    /\ oldLines' = Split(oldText, NL)
    /\ newLines' = Split(newText, NL)
    /\ lcs' = computeLCS(Split(oldText, NL), Split(newText, NL))
    /\ bi' = Len(Split(oldText, NL))
    /\ bj' = Len(Split(newText, NL))
    /\ operations' = <<>>
    /\ dpc' = "backtrack"
    /\ UNCHANGED <<oldText, newText>>
    /\ UNCHANGED notDiff

\* One iteration of the while loop of buildDiffFromLCS: the Equal branch.
BacktrackEqual ==
    /\ dpc = "backtrack"
    /\ LoopCond(bi, bj)
    /\ EqualCond(bi, bj)
    /\ operations' = <<EqualOp(bi, bj)>> \o operations
    /\ bi' = bi - 1
    /\ bj' = bj - 1
    /\ UNCHANGED <<oldText, newText, oldLines, newLines, lcs, dpc>>
    /\ UNCHANGED notDiff

\* The Insert branch: taken when the lines differ and lcs[i][j-1] >= lcs[i-1][j].
BacktrackInsert ==
    /\ dpc = "backtrack"
    /\ LoopCond(bi, bj)
    /\ ~EqualCond(bi, bj)
    /\ InsertCond(bi, bj)
    /\ operations' = <<InsertOp(bj)>> \o operations
    /\ bj' = bj - 1
    /\ UNCHANGED <<oldText, newText, oldLines, newLines, lcs, bi, dpc>>
    /\ UNCHANGED notDiff

\* The Delete branch.
BacktrackDelete ==
    /\ dpc = "backtrack"
    /\ LoopCond(bi, bj)
    /\ ~EqualCond(bi, bj)
    /\ ~InsertCond(bi, bj)
    /\ bi > 0
    /\ operations' = <<DeleteOp(bi)>> \o operations
    /\ bi' = bi - 1
    /\ UNCHANGED <<oldText, newText, oldLines, newLines, lcs, bj, dpc>>
    /\ UNCHANGED notDiff

\* The loop exits and buildDiffFromLCS returns operations.
DiffReturn ==
    /\ dpc = "backtrack"
    /\ ~LoopCond(bi, bj)
    /\ dpc' = "done"
    /\ UNCHANGED <<oldText, newText, oldLines, newLines, lcs, bi, bj, operations>>
    /\ UNCHANGED notDiff

DiffNext ==
    \/ ComputeDiff
    \/ BacktrackEqual
    \/ BacktrackInsert
    \/ BacktrackDelete
    \/ DiffReturn

(***************************************************************************)
(* Storage: js/modules/storage.js                                          *)
(***************************************************************************)
\* null and undefined, and an Error with its message, as records (every
\* value an operation takes or returns is a record; ids are tuples).
Null == [null |-> TRUE]

Undefined == [undefined |-> TRUE]

Error(message) == [error |-> message]

NoId == <<>>

NoDate == 0 - 1

\* The store the operations use: `this.useLocalStorageFallback || !this.db`
\* selects the localStorage arrays, otherwise the IndexedDB object stores.
Backend == IF useLocalStorageFallback \/ ~isReady THEN "ls" ELSE "idb"

Settled(op) == op.status \in {"fulfilled", "rejected"}

\* pending: how many earlier operations had not settled at the call.
NewOp(kind, arg) ==
    [kind |-> kind, arg |-> arg, status |-> "queued", result |-> Undefined, work |-> <<>>,
     pending |-> Cardinality({j \in 1..Len(ops) : ~Settled(ops[j])})]

\* enqueue (lines 99-107): the operation is chained on requestQueue at the call.
Enqueue(kind, arg) == ops' = Append(ops, NewOp(kind, arg))

\* `.then(...)` on the previous promise: the callback runs once that promise
\* has settled.
PrevSettledUnchained(k) == TRUE

PrevSettled(k) == IF k = 1 THEN TRUE ELSE Settled(ops[k - 1])

\* `.catch(() => { })` before `.then`: a rejection of the previous operation is
\* swallowed, so the callback always runs (without it, a rejection would skip
\* the callback and reject this operation with the same error).
ThenRunsNoCatch(k) == IF k = 1 THEN TRUE ELSE ops[k - 1].status # "rejected"

ThenRuns(k) == TRUE

\* `operation().catch(err => { console.error(...); throw err; })`: the
\* outcome of the operation is the outcome of the promise the caller holds.
CatchSwallow(outcome) ==
    IF outcome.status = "rejected" THEN [status |-> "fulfilled", result |-> Undefined] ELSE outcome

CatchRethrow(outcome) == outcome

Fulfil(v) == CatchRethrow([status |-> "fulfilled", result |-> v])

Reject(e) == CatchRethrow([status |-> "rejected", result |-> e])

Settle(k, outcome) ==
    ops' = [ops EXCEPT ![k].status = outcome.status, ![k].result = outcome.result]

\* The storage settles, then init() resolves: IndexedDB opened (onsuccess),
\* or absent or failing to open (the localStorage fallback).
StorageInitDone ==
    /\ ~isReady
    /\ isReady' = TRUE
    /\ useLocalStorageFallback' \in BOOLEAN
    /\ UNCHANGED <<ops, documents, snapshots, settings, nextId, now>>
    /\ UNCHANGED notStorage

\* The operation's turn comes: the async body is entered and suspends at
\* `await this.ready()`.
OpStart(k) ==
    /\ ops[k].status = "queued"
    /\ PrevSettled(k)
    /\ IF ThenRuns(k)
       THEN ops' = [ops EXCEPT ![k].status = "ready"]
       ELSE ops' = [ops EXCEPT ![k].status = "rejected", ![k].result = ops[k - 1].result]
    /\ UNCHANGED <<isReady, useLocalStorageFallback, documents, snapshots, settings, nextId, now>>
    /\ UNCHANGED notStorage

MaxTitleLength == 200

\* saveDocument throws at its input validation (lines 152-158) before it
\* touches a store; every other operation issues a request.
IssuesRequest(op) ==
    IF op.kind # "saveDocument" THEN TRUE
    ELSE IF op.arg = Null THEN FALSE
    ELSE Len(op.arg.title) <= MaxTitleLength

\* A request or transaction fails (request.onerror, a throwing setItem): the
\* operation rejects.
OpFail(k) ==
    /\ ops[k].status \in {"ready", "put", "pruning"}
    /\ isReady
    /\ IssuesRequest(ops[k])
    /\ Settle(k, Reject(Error("storage error")))
    /\ UNCHANGED <<isReady, useLocalStorageFallback, documents, snapshots, settings, nextId, now>>
    /\ UNCHANGED notStorage

IndexOfId(store, id) ==
    IF \E i \in 1..Len(store) : store[i].id = id
    THEN CHOOSE i \in 1..Len(store) : store[i].id = id /\ \A j \in 1..(i - 1) : store[j].id # id
    ELSE 0

\* put by key: replace the record with the same id, else add it.
Put(store, rec) ==
    IF IndexOfId(store, rec.id) > 0
    THEN [store EXCEPT ![IndexOfId(store, rec.id)] = rec]
    ELSE Append(store, rec)

Find(store, id) == IF IndexOfId(store, id) > 0 THEN store[IndexOfId(store, id)] ELSE Null

Filter(store, Keep(_)) == SelectSeq(store, Keep)

GeneratedId(n) == <<"gen", n>>

\* The record saveDocument stores (lines 162-167 and 182-187).
DocToStore(document) ==
    [document EXCEPT
        !.id = IF document.id = NoId THEN GeneratedId(nextId) ELSE document.id,
        !.updatedAt = now,
        !.createdAt = IF document.createdAt = NoDate THEN now ELSE document.createdAt]

\* saveDocument (lines 148-194).
ExecSaveDocument(k) ==
    /\ ops[k].kind = "saveDocument" /\ ops[k].status = "ready"
    /\ isReady
    /\ LET document == ops[k].arg IN
       IF document = Null
       THEN /\ Settle(k, Reject(Error("Invalid document object")))
            /\ UNCHANGED <<documents, nextId>>
       ELSE IF Len(document.title) > MaxTitleLength
       THEN /\ Settle(k, Reject(Error("Title too long (max 200 characters)")))
            /\ UNCHANGED <<documents, nextId>>
       ELSE /\ documents' = [documents EXCEPT ![Backend] = Put(@, DocToStore(document))]
            /\ nextId' = IF document.id = NoId THEN nextId + 1 ELSE nextId
            /\ Settle(k, Fulfil(DocToStore(document)))
    /\ UNCHANGED <<isReady, useLocalStorageFallback, snapshots, settings, now>>
    /\ UNCHANGED notStorage

\* getDocument (lines 196-213).
ExecGetDocument(k) ==
    /\ ops[k].kind = "getDocument" /\ ops[k].status = "ready"
    /\ isReady
    /\ Settle(k, Fulfil(Find(documents[Backend], ops[k].arg)))
    /\ UNCHANGED <<isReady, useLocalStorageFallback, documents, snapshots, settings, nextId, now>>
    /\ UNCHANGED notStorage

\* deleteDocument (lines 255-290): the document and its snapshots.
ExecDeleteDocument(k) ==
    /\ ops[k].kind = "deleteDocument" /\ ops[k].status = "ready"
    /\ isReady
    /\ documents' = [documents EXCEPT ![Backend] = Filter(@, LAMBDA d : d.id # ops[k].arg)]
    /\ snapshots' = [snapshots EXCEPT ![Backend] = Filter(@, LAMBDA s : s.documentId # ops[k].arg)]
    /\ Settle(k, Fulfil(Undefined))
    /\ UNCHANGED <<isReady, useLocalStorageFallback, settings, nextId, now>>
    /\ UNCHANGED notStorage

SnapshotCap == 50

\* _getSnapshotsInternal (lines 354-368).
SnapshotsOf(documentId) == Filter(snapshots[Backend], LAMBDA s : s.documentId = documentId)

MinCreatedAt(recs) ==
    CHOOSE t \in {recs[i].createdAt : i \in 1..Len(recs)} :
        \A i \in 1..Len(recs) : t <= recs[i].createdAt

\* The candidates for element [0] of recs sorted by createdAt ascending.  The
\* sort is stable: the localStorage array keeps insertion order, so the first
\* inserted of the oldest is taken; the IndexedDB index returns records that
\* share a millisecond in the order of the random part of their ids.
NewestOf(recs) == {recs[Len(recs)]}

OldestOf(recs) ==
    LET oldest == {i \in 1..Len(recs) : recs[i].createdAt = MinCreatedAt(recs)}
    IN  IF Backend = "ls"
        THEN {recs[CHOOSE i \in oldest : \A j \in oldest : i <= j]}
        ELSE {recs[i] : i \in oldest}

\* The length of a stored content: a string, or the base64 text of
\* salt + iv + AES-GCM ciphertext (with its 16-byte tag).
ContentLength(content) ==
    IF "key" \in DOMAIN content
    THEN 4 * ((16 + 12 + Len(content.text) + 16 + 2) \div 3)
    ELSE Len(content.text)

\* The record saveSnapshot stores (lines 313-320 and 337-344).
NewSnapshot(arg) ==
    [id |-> GeneratedId(nextId), documentId |-> arg.documentId, content |-> arg.content,
     encrypted |-> arg.encrypted, createdAt |-> now, size |-> ContentLength(arg.content)]

\* saveSnapshot on the localStorage fallback (lines 300-324): one synchronous run.
ExecSaveSnapshotFallback(k) ==
    /\ ops[k].kind = "saveSnapshot" /\ ops[k].status = "ready"
    /\ isReady /\ Backend = "ls"
    /\ LET perDoc == SnapshotsOf(ops[k].arg.documentId) IN
       IF Len(perDoc) >= SnapshotCap
       THEN \E oldest \in OldestOf(perDoc) :
                snapshots' = [snapshots EXCEPT ![Backend] =
                    Append(Filter(@, LAMBDA s : s.id # oldest.id), NewSnapshot(ops[k].arg))]
       ELSE snapshots' = [snapshots EXCEPT ![Backend] = Append(@, NewSnapshot(ops[k].arg))]
    /\ nextId' = nextId + 1
    /\ Settle(k, Fulfil(NewSnapshot(ops[k].arg)))
    /\ UNCHANGED <<isReady, useLocalStorageFallback, documents, settings, now>>
    /\ UNCHANGED notStorage

\* saveSnapshot on IndexedDB, first part (lines 327-331): the limit check.
ExecSaveSnapshotCheck(k) ==
    /\ ops[k].kind = "saveSnapshot" /\ ops[k].status = "ready"
    /\ isReady /\ Backend = "idb"
    /\ LET perDoc == SnapshotsOf(ops[k].arg.documentId) IN
       IF Len(perDoc) >= SnapshotCap
       THEN \E oldest \in OldestOf(perDoc) :
                snapshots' = [snapshots EXCEPT ![Backend] = Filter(@, LAMBDA s : s.id # oldest.id)]
       ELSE UNCHANGED snapshots
    /\ ops' = [ops EXCEPT ![k].status = "put"]
    /\ UNCHANGED <<isReady, useLocalStorageFallback, documents, settings, nextId, now>>
    /\ UNCHANGED notStorage

\* saveSnapshot on IndexedDB, second part (lines 333-349): the put.
ExecSaveSnapshotPut(k) ==
    /\ ops[k].kind = "saveSnapshot" /\ ops[k].status = "put"
    /\ snapshots' = [snapshots EXCEPT ![Backend] = Put(@, NewSnapshot(ops[k].arg))]
    /\ nextId' = nextId + 1
    /\ Settle(k, Fulfil(NewSnapshot(ops[k].arg)))
    /\ UNCHANGED <<isReady, useLocalStorageFallback, documents, settings, now>>
    /\ UNCHANGED notStorage

\* getSnapshot (lines 392-409).
ExecGetSnapshot(k) ==
    /\ ops[k].kind = "getSnapshot" /\ ops[k].status = "ready"
    /\ isReady
    /\ Settle(k, Fulfil(Find(snapshots[Backend], ops[k].arg)))
    /\ UNCHANGED <<isReady, useLocalStorageFallback, documents, snapshots, settings, nextId, now>>
    /\ UNCHANGED notStorage

\* saveSetting (lines 418-437).
ExecSaveSetting(k) ==
    /\ ops[k].kind = "saveSetting" /\ ops[k].status = "ready"
    /\ isReady
    /\ settings' = [settings EXCEPT ![Backend] =
            [key \in DOMAIN @ \cup {ops[k].arg.key} |->
                IF key = ops[k].arg.key THEN ops[k].arg.value ELSE @[key]]]
    /\ Settle(k, Fulfil(Undefined))
    /\ UNCHANGED <<isReady, useLocalStorageFallback, documents, snapshots, nextId, now>>
    /\ UNCHANGED notStorage

\* getSetting (lines 439-456).
ExecGetSetting(k) ==
    /\ ops[k].kind = "getSetting" /\ ops[k].status = "ready"
    /\ isReady
    /\ Settle(k, Fulfil(IF ops[k].arg.key \in DOMAIN settings[Backend]
                        THEN settings[Backend][ops[k].arg.key]
                        ELSE ops[k].arg.defaultValue))
    /\ UNCHANGED <<isReady, useLocalStorageFallback, documents, snapshots, settings, nextId, now>>
    /\ UNCHANGED notStorage

\* The orders in which sort() by createdAt can list recs (see OldestOf).
RECURSIVE SortedOrders(_)
SortedOrders(recs) ==
    IF Len(recs) = 0 THEN {<<>>}
    ELSE UNION { { <<first>> \o rest :
                    rest \in SortedOrders(Filter(recs, LAMBDA s : s.id # first.id)) } :
                 first \in OldestOf(recs) }

\* pruneSnapshots, first part (lines 485-501): read, compare with the
\* maximum, sort, and take the oldest excess as toDelete.
PruneRead(k) ==
    /\ ops[k].kind = "pruneSnapshots" /\ ops[k].status = "ready"
    /\ isReady
    /\ LET perDoc == SnapshotsOf(ops[k].arg.documentId) IN
       IF Len(perDoc) <= ops[k].arg.maxSnapshots
       THEN Settle(k, Fulfil(Undefined))
       ELSE \E sorted \in SortedOrders(perDoc) :
                ops' = [ops EXCEPT ![k].status = "pruning",
                                   ![k].work = SubSeq(sorted, 1, Len(perDoc) - ops[k].arg.maxSnapshots)]
    /\ UNCHANGED <<isReady, useLocalStorageFallback, documents, snapshots, settings, nextId, now>>
    /\ UNCHANGED notStorage

\* pruneSnapshots, the loop (lines 503-505): one _deleteSnapshotInternal.
PruneDelete(k) ==
    /\ ops[k].kind = "pruneSnapshots" /\ ops[k].status = "pruning"
    /\ Len(ops[k].work) > 0
    /\ snapshots' = [snapshots EXCEPT ![Backend] = Filter(@, LAMBDA s : s.id # Head(ops[k].work).id)]
    /\ ops' = [ops EXCEPT ![k].work = Tail(@)]
    /\ UNCHANGED <<isReady, useLocalStorageFallback, documents, settings, nextId, now>>
    /\ UNCHANGED notStorage

\* pruneSnapshots returns (line 507).
PruneDone(k) ==
    /\ ops[k].kind = "pruneSnapshots" /\ ops[k].status = "pruning"
    /\ Len(ops[k].work) = 0
    /\ Settle(k, Fulfil(Undefined))
    /\ UNCHANGED <<isReady, useLocalStorageFallback, documents, snapshots, settings, nextId, now>>
    /\ UNCHANGED notStorage

\* Time passes.
MaxClock == 2

ClockTick ==
    /\ now < MaxClock
    /\ now' = now + 1
    /\ UNCHANGED <<isReady, useLocalStorageFallback, ops, documents, snapshots, settings, nextId>>
    /\ UNCHANGED notStorage

(***************************************************************************)
(* A client of one Storage instance issuing calls without awaiting them    *)
(* (storage.test.js, tests/high-risk-regressions.test.js lines 30-53).     *)
(***************************************************************************)
MaxCalls == 2

Doc(id, title, content) ==
    [id |-> id, title |-> title, content |-> content, encrypted |-> FALSE,
     createdAt |-> NoDate, updatedAt |-> NoDate]

Plain(text) == [text |-> text]

DocId(n) == <<"doc", n>>

TitleTest == <<"T", "e", "s", "t">>

TitleRecovered == <<"R", "e", "c">>

TitleTooLong == [i \in 1..(MaxTitleLength + 1) |-> "x"]

ContentHello == <<"H", "e", "l", "l", "o">>

ContentOk == <<"o", "k">>

ClientRequests ==
    <<[kind |-> "saveDocument", arg |-> Null],
      [kind |-> "saveDocument", arg |-> Doc(DocId(1), TitleTest, Plain(ContentHello))],
      [kind |-> "saveDocument", arg |-> Doc(DocId(1), TitleRecovered, Plain(ContentOk))],
      [kind |-> "saveDocument", arg |-> Doc(DocId(1), TitleTooLong, Plain(ContentOk))],
      [kind |-> "saveDocument", arg |-> Doc(NoId, TitleTest, Plain(ContentOk))],
      [kind |-> "getDocument", arg |-> DocId(1)],
      [kind |-> "deleteDocument", arg |-> DocId(1)],
      [kind |-> "saveSnapshot", arg |-> [documentId |-> DocId(1), content |-> Plain(ContentOk), encrypted |-> FALSE]],
      [kind |-> "pruneSnapshots", arg |-> [documentId |-> DocId(1), maxSnapshots |-> 0]],
      [kind |-> "getSnapshot", arg |-> GeneratedId(1)],
      [kind |-> "saveSetting", arg |-> [key |-> "theme", value |-> "dark"]],
      [kind |-> "getSetting", arg |-> [key |-> "theme", defaultValue |-> "light"]]>>

ClientCall ==
    /\ calls < MaxCalls
    /\ \E r \in 1..Len(ClientRequests) : Enqueue(ClientRequests[r].kind, ClientRequests[r].arg)
    /\ calls' = calls + 1
    /\ UNCHANGED <<isReady, useLocalStorageFallback, documents, snapshots, settings, nextId, now>>
    /\ UNCHANGED notClient

StorageNext ==
    \/ StorageInitDone
    \/ ClockTick
    \/ ClientCall
    \/ \E k \in 1..Len(ops) : OpStart(k)
    \/ \E k \in 1..Len(ops) : OpFail(k)
    \/ \E k \in 1..Len(ops) : ExecSaveDocument(k)
    \/ \E k \in 1..Len(ops) : ExecGetDocument(k)
    \/ \E k \in 1..Len(ops) : ExecDeleteDocument(k)
    \/ \E k \in 1..Len(ops) : ExecSaveSnapshotFallback(k)
    \/ \E k \in 1..Len(ops) : ExecSaveSnapshotCheck(k)
    \/ \E k \in 1..Len(ops) : ExecSaveSnapshotPut(k)
    \/ \E k \in 1..Len(ops) : ExecGetSnapshot(k)
    \/ \E k \in 1..Len(ops) : ExecSaveSetting(k)
    \/ \E k \in 1..Len(ops) : ExecGetSetting(k)
    \/ \E k \in 1..Len(ops) : PruneRead(k)
    \/ \E k \in 1..Len(ops) : PruneDelete(k)
    \/ \E k \in 1..Len(ops) : PruneDone(k)

(***************************************************************************)
(* Encryption (unnamed/part_000) and History (js/modules/history.js)       *)
(***************************************************************************)
\* this.passphrase = null; every passphrase given has at least 8 characters.
NoPass == ""

Passphrases == {"passphrase-1", "passphrase-2"}

\* A passphrase setPassphrase refuses (line 63): shorter than 8 characters.
ShortPass == "short"

\* What a caller may pass as the passphrase of restoreSnapshot: nothing, a
\* passphrase that is too short, or one that setPassphrase accepts.
PassphraseArgs == {NoPass, ShortPass} \cup Passphrases

\* setPassphrase accepting any passphrase (a variant of the test of line 63).
AnyPassphraseAccepted(passphrase) == passphrase # NoPass

\* The test of setPassphrase (line 63).
PassphraseAccepted(passphrase) == Len(passphrase) >= 8

\* The base64 text encrypt() returns, kept as the key and the plaintext it
\* was made from (salt and iv are random; they play no part in decrypting
\* under the right passphrase).
Cipher(key, text) == [key |-> key, text |-> text]

IsCipher(content) == "key" \in DOMAIN content

\* crypto.subtle.decrypt resolves only for AES-GCM data made under the same
\* passphrase; anything else rejects.
DecryptOk(content, key) == IF IsCipher(content) THEN content.key = key ELSE FALSE

maxSnapshots == 50

DocA == DocId(1)

DocB == DocId(2)

HistoryDocs == {DocA, DocB}

\* An async call of History in progress.
NewProc(kind, documentId, snapshotId, content, encrypt, fromTick) ==
    [kind |-> kind, documentId |-> documentId, snapshotId |-> snapshotId,
     content |-> content, encrypt |-> encrypt, fromTick |-> fromTick,
     unlocked |-> encryption.isUnlocked, encOutcome |-> "none",
     pc |-> "start", key |-> NoPass, op |-> 0, snapOp |-> 0, docOp |-> 0,
     late |-> FALSE, passphrase |-> NoPass]

\* Encryption.setPassphrase (lines 62-68).
setPassphrase(p) ==
    /\ encryption' = [passphrase |-> p, isUnlocked |-> TRUE]
    /\ UNCHANGED <<timers, procs, stopped, starts, intervals, cryptoCalls>>
    /\ UNCHANGED storageVars
    /\ UNCHANGED notHistory

\* Encryption.lock (lines 73-76).
lock ==
    /\ encryption.isUnlocked
    /\ encryption' = [passphrase |-> NoPass, isUnlocked |-> FALSE]
    /\ UNCHANGED <<timers, procs, stopped, starts, intervals, cryptoCalls>>
    /\ UNCHANGED storageVars
    /\ UNCHANGED notHistory

\* decrypt() falling back to a passphrase of its own when it has none.
effectiveDefault(passphrase) == "passphrase-1"

\* The passphrase decrypt() works with (line 128 of the encryption module):
\* the one supplied, else the module's.
effectivePassphrase(passphrase) ==
    IF passphrase # NoPass THEN passphrase ELSE encryption.passphrase

\* ---- calls made on the Encryption instance itself ----
MaxCryptoCalls == 4

\* The record of a call: given is the passphrase given to it, held the
\* passphrase the instance held when the call was made, key the passphrase
\* the call works with.
CryptoCall(name, arg, given, key, outcome, result) ==
    [name |-> name, arg |-> arg, given |-> given, held |-> encryption.passphrase,
     unlockedAtCall |-> encryption.isUnlocked,
     key |-> key, outcome |-> outcome, result |-> result]

CallsEncryption(call) ==
    /\ Len(cryptoCalls) < MaxCryptoCalls
    /\ cryptoCalls' = Append(cryptoCalls, call)
    /\ UNCHANGED <<timers, procs, stopped, starts, intervals>>
    /\ UNCHANGED storageVars
    /\ UNCHANGED notHistory

\* setPassphrase (lines 62-68): a passphrase that is missing or too short
\* throws before anything is written.
SetPassphraseCall(passphrase) ==
    /\ CallsEncryption(CryptoCall("setPassphrase", passphrase, passphrase, NoPass,
            IF PassphraseAccepted(passphrase) THEN "resolved" ELSE "rejected", NoPass))
    /\ encryption' = IF PassphraseAccepted(passphrase)
                     THEN [passphrase |-> passphrase, isUnlocked |-> TRUE]
                     ELSE encryption

\* lock (lines 73-76).
LockCall ==
    /\ CallsEncryption(CryptoCall("lock", NoPass, NoPass, NoPass, "resolved", NoPass))
    /\ encryption' = [passphrase |-> NoPass, isUnlocked |-> FALSE]

CryptoTexts == {<<"m", "d">>}

\* encrypt up to its first await (lines 83-91): it throws if the instance is
\* locked or holds no passphrase, else it goes on with the passphrase held.
EncryptCall(plaintext) ==
    /\ CallsEncryption(CryptoCall("encrypt", plaintext, NoPass, encryption.passphrase,
            IF ~encryption.isUnlocked \/ encryption.passphrase = NoPass
            THEN "rejected" ELSE "pending", NoPass))
    /\ UNCHANGED encryption

\* What decrypt is given: a ciphertext made under one of the passphrases.
Ciphertexts == {Cipher(key, text) : key \in Passphrases, text \in CryptoTexts}

\* decrypt up to its first await (lines 120-132): it throws if neither a
\* passphrase is given nor one held.
DecryptCall(encrypted, passphrase) ==
    /\ CallsEncryption(CryptoCall("decrypt", encrypted, passphrase,
            effectivePassphrase(passphrase),
            IF effectivePassphrase(passphrase) = NoPass THEN "rejected" ELSE "pending",
            NoPass))
    /\ UNCHANGED encryption

\* The crypto.subtle call of a pending encrypt or decrypt settles (lines
\* 97-110, 135-142): encrypt gives the ciphertext under its key or fails;
\* decrypt gives the plaintext if the key is the one the data was made under.
CryptoSettles(c, fails) ==
    /\ cryptoCalls[c].outcome = "pending"
    /\ cryptoCalls' = [cryptoCalls EXCEPT
            ![c].outcome = IF cryptoCalls[c].name = "encrypt"
                           THEN (IF fails THEN "rejected" ELSE "resolved")
                           ELSE (IF DecryptOk(cryptoCalls[c].arg, cryptoCalls[c].key)
                                 THEN "resolved" ELSE "rejected"),
            ![c].result = IF cryptoCalls[c].name = "encrypt"
                          THEN (IF fails THEN NoPass
                                ELSE Cipher(cryptoCalls[c].key, cryptoCalls[c].arg))
                          ELSE (IF DecryptOk(cryptoCalls[c].arg, cryptoCalls[c].key)
                                THEN Plain(cryptoCalls[c].arg.text) ELSE NoPass)]
    /\ UNCHANGED <<encryption, timers, procs, stopped, starts, intervals>>
    /\ UNCHANGED storageVars
    /\ UNCHANGED notHistory

EncryptionNext ==
    \/ \E p \in PassphraseArgs : SetPassphraseCall(p)
    \/ LockCall
    \/ \E text \in CryptoTexts : EncryptCall(text)
    \/ \E encrypted \in Ciphertexts, p \in {NoPass} \cup Passphrases : DecryptCall(encrypted, p)
    \/ \E c \in 1..Len(cryptoCalls), fails \in BOOLEAN : CryptoSettles(c, fails)

\* stopAllAutoSnapshots without its timers.clear() (line 68): the entries stay.
timersKept == timers

\* stopAllAutoSnapshots (lines 64-69): every interval is cleared.
stopAllAutoSnapshots == {}

\* The map emptied with no clearInterval call: the intervals are left running.
clearNone(who, forDocument) == intervals

\* clearInterval(timer) for each timer of the map (line 65-67): who records
\* the call that cleared it, forDocument the document that call was made for.
clearAll(who, forDocument) ==
    [k \in DOMAIN intervals |->
        IF \E t \in timers : t.id = k
        THEN [intervals[k] EXCEPT !.cleared = TRUE, !.clearedBy = who,
                                  !.clearedFor = forDocument]
        ELSE intervals[k]]

\* setInterval (line 35): a new interval, running.
setInterval(documentId) ==
    [documentId |-> documentId, cleared |-> FALSE, clearedBy |-> "none",
     clearedFor |-> documentId]

MaxStarts == 2

\* startAutoSnapshot (lines 31-47).  stopped remembers the documents whose
\* timer was cleared by a start for another document.
startAutoSnapshot(documentId, encrypt) ==
    /\ starts < MaxStarts
    /\ starts' = starts + 1
    /\ stopped' = (stopped \cup {t.documentId : t \in timers}) \ {documentId}
    /\ intervals' = Append(clearAll("startAutoSnapshot", documentId), setInterval(documentId))
    /\ timers' = stopAllAutoSnapshots \cup {[documentId |-> documentId, encrypt |-> encrypt,
                                             id |-> Len(intervals) + 1]}
    /\ UNCHANGED <<encryption, procs, cryptoCalls>>
    /\ UNCHANGED storageVars
    /\ UNCHANGED notHistory

\* stopAutoSnapshot (lines 53-59): the document's interval, if it has one,
\* is cleared and its entry deleted.
stopAutoSnapshot(documentId) ==
    /\ intervals' = [k \in DOMAIN intervals |->
                        IF \E t \in timers : t.id = k /\ t.documentId = documentId
                        THEN [intervals[k] EXCEPT !.cleared = TRUE,
                                                  !.clearedBy = "stopAutoSnapshot",
                                                  !.clearedFor = documentId]
                        ELSE intervals[k]]
    /\ timers' = {t \in timers : t.documentId # documentId}
    /\ UNCHANGED <<encryption, procs, stopped, starts, cryptoCalls>>
    /\ UNCHANGED storageVars
    /\ UNCHANGED notHistory

\* A call of stopAllAutoSnapshots from outside (lines 64-69).
StopAllAutoSnapshotsCall ==
    /\ intervals' = clearAll("stopAllAutoSnapshots", "")
    /\ timers' = stopAllAutoSnapshots
    /\ UNCHANGED <<encryption, procs, stopped, starts, cryptoCalls>>
    /\ UNCHANGED storageVars
    /\ UNCHANGED notHistory

\* The catch of createSnapshot (lines 87-89): the failure is logged and the
\* call goes on to save the plaintext.
CatchEncryptRethrow(ok) == ok

CatchEncrypt(ok) == TRUE

\* createSnapshot up to its first await (lines 79-92): either encrypt() is
\* entered, which reads isUnlocked and the passphrase at once (lines 84-92 of
\* the encryption module), or storage.saveSnapshot is called directly.
BeginCreate(documentId, content, encrypt, fromTick) ==
    LET p == NewProc("create", documentId, NoId, content, encrypt, fromTick) IN
    IF encrypt /\ encryption.isUnlocked
    THEN /\ procs' = Append(procs, [p EXCEPT !.pc = "encrypting", !.key = encryption.passphrase])
         /\ UNCHANGED ops
    ELSE /\ procs' = Append(procs, [p EXCEPT !.pc = "saving", !.op = Len(ops) + 1,
                                                !.snapOp = Len(ops) + 1])
         /\ Enqueue("saveSnapshot",
                    [documentId |-> documentId, content |-> content, encrypted |-> FALSE])

MaxProcs == 1

\* A tick of the interval of startAutoSnapshot (lines 35-44); getContent()
\* returns text that is not blank.
TimerTick(t) ==
    /\ t \in timers
    /\ Len(procs) < MaxProcs
    /\ BeginCreate(t.documentId, Plain(ContentOk), t.encrypt, TRUE)
    /\ UNCHANGED <<encryption, timers, stopped, starts, intervals, cryptoCalls>>
    /\ UNCHANGED <<isReady, useLocalStorageFallback, documents, snapshots, settings, nextId, now>>
    /\ UNCHANGED notHistory

\* A direct call of createSnapshot (lines 78-98).
createSnapshot(documentId, encrypt) ==
    /\ Len(procs) < MaxProcs
    /\ BeginCreate(documentId, Plain(ContentOk), encrypt, FALSE)
    /\ UNCHANGED <<encryption, timers, stopped, starts, intervals, cryptoCalls>>
    /\ UNCHANGED <<isReady, useLocalStorageFallback, documents, snapshots, settings, nextId, now>>
    /\ UNCHANGED notHistory

\* Whether restoreSnapshot takes the branch of an encrypted document (line 145).
DocumentEncryptedIgnored(document) == FALSE

DocumentEncrypted(document) == document.encrypted

\* encrypt() settles (lines 92-111 of the encryption module): resolved with
\* the ciphertext, or rejected by Web Crypto.  createSnapshot goes on to
\* saveSnapshot (lines 85-92); restoreSnapshot saves the document with the
\* ciphertext, or rejects (lines 155-161).
EncryptSettle(p) ==
    /\ procs[p].pc = "encrypting"
    /\ \E ok \in (IF procs[p].key = NoPass THEN {FALSE} ELSE BOOLEAN) :
        LET saveContent == IF ok THEN Cipher(procs[p].key, procs[p].content.text)
                                 ELSE procs[p].content
            outcome == IF ok THEN "ok" ELSE "failed"
        IN  IF procs[p].kind = "create" /\ CatchEncrypt(ok)
            THEN /\ procs' = [procs EXCEPT ![p].pc = "saving", ![p].op = Len(ops) + 1,
                                           ![p].snapOp = Len(ops) + 1,
                                           ![p].encOutcome = outcome,
                                           ![p].late = procs[p].fromTick
                                                       /\ procs[p].documentId \in stopped]
                 /\ Enqueue("saveSnapshot", [documentId |-> procs[p].documentId,
                                             content |-> saveContent, encrypted |-> ok])
            ELSE IF procs[p].kind = "restore" /\ ok
            THEN /\ procs' = [procs EXCEPT ![p].pc = "savingDoc", ![p].op = Len(ops) + 1,
                                           ![p].encOutcome = outcome]
                 /\ Enqueue("saveDocument",
                            [ops[procs[p].docOp].result EXCEPT !.content = saveContent,
                                                                !.encrypted = TRUE])
            ELSE /\ procs' = [procs EXCEPT ![p].pc = "rejected", ![p].encOutcome = outcome]
                 /\ UNCHANGED ops
    /\ UNCHANGED <<encryption, timers, stopped, starts, intervals, cryptoCalls>>
    /\ UNCHANGED <<isReady, useLocalStorageFallback, documents, snapshots, settings, nextId, now>>
    /\ UNCHANGED notHistory

\* storage.saveSnapshot has settled (lines 92-95): pruneSnapshots is called,
\* or createSnapshot rejects.
SnapshotSaved(p) ==
    /\ procs[p].pc = "saving"
    /\ Settled(ops[procs[p].op])
    /\ IF ops[procs[p].op].status = "fulfilled"
       THEN /\ procs' = [procs EXCEPT ![p].pc = "pruning", ![p].op = Len(ops) + 1]
            /\ Enqueue("pruneSnapshots",
                       [documentId |-> procs[p].documentId, maxSnapshots |-> maxSnapshots])
       ELSE /\ procs' = [procs EXCEPT ![p].pc = "rejected"]
            /\ UNCHANGED ops
    /\ UNCHANGED <<encryption, timers, stopped, starts, intervals, cryptoCalls>>
    /\ UNCHANGED <<isReady, useLocalStorageFallback, documents, snapshots, settings, nextId, now>>
    /\ UNCHANGED notHistory

\* storage.pruneSnapshots has settled (lines 95-97): createSnapshot returns.
SnapshotsPruned(p) ==
    /\ procs[p].pc = "pruning"
    /\ Settled(ops[procs[p].op])
    /\ procs' = [procs EXCEPT ![p].pc =
                    IF ops[procs[p].op].status = "fulfilled" THEN "done" ELSE "rejected"]
    /\ UNCHANGED <<encryption, timers, stopped, starts, intervals, cryptoCalls>>
    /\ UNCHANGED storageVars
    /\ UNCHANGED notHistory

\* restoreSnapshot is called, with or without a passphrase (lines 139-140):
\* it calls getSnapshotContent, which calls storage.getSnapshot (line 116).
restoreSnapshot(documentId, snapshotId, passphrase) ==
    /\ Len(procs) < MaxProcs
    /\ procs' = Append(procs,
            [NewProc("restore", documentId, snapshotId, Plain(<<>>), FALSE, FALSE)
                EXCEPT !.pc = "getSnapshot", !.op = Len(ops) + 1, !.snapOp = Len(ops) + 1,
                       !.passphrase = passphrase])
    /\ Enqueue("getSnapshot", snapshotId)
    /\ UNCHANGED <<encryption, timers, stopped, starts, intervals, cryptoCalls>>
    /\ UNCHANGED <<isReady, useLocalStorageFallback, documents, snapshots, settings, nextId, now>>
    /\ UNCHANGED notHistory

\* getSnapshotContent after storage.getSnapshot (lines 118-129): a missing
\* snapshot throws; an encrypted one goes to decrypt(), which throws when it
\* has no passphrase (lines 128-131 of the encryption module); a plain one is
\* the content, and restoreSnapshot calls storage.getDocument (line 143).
SnapshotLoaded(p) ==
    /\ procs[p].pc = "getSnapshot"
    /\ Settled(ops[procs[p].op])
    /\ LET snapshot == ops[procs[p].op].result IN
       IF ops[procs[p].op].status = "rejected" THEN
            /\ procs' = [procs EXCEPT ![p].pc = "rejected"]
            /\ UNCHANGED ops
       ELSE IF snapshot = Null THEN
            /\ procs' = [procs EXCEPT ![p].pc = "rejected"]
            /\ UNCHANGED ops
       ELSE IF snapshot.encrypted THEN
            /\ procs' = [procs EXCEPT ![p].pc =
                            IF effectivePassphrase(procs[p].passphrase) = NoPass
                            THEN "rejected" ELSE "decrypting",
                         ![p].key = effectivePassphrase(procs[p].passphrase)]
            /\ UNCHANGED ops
       ELSE /\ procs' = [procs EXCEPT ![p].pc = "getDocument", ![p].content = snapshot.content,
                                      ![p].op = Len(ops) + 1, ![p].docOp = Len(ops) + 1]
            /\ Enqueue("getDocument", procs[p].documentId)
    /\ UNCHANGED <<encryption, timers, stopped, starts, intervals, cryptoCalls>>
    /\ UNCHANGED <<isReady, useLocalStorageFallback, documents, snapshots, settings, nextId, now>>
    /\ UNCHANGED notHistory

\* decrypt() settles (lines 133-142 of the encryption module); on success
\* restoreSnapshot calls storage.getDocument (line 143).
DecryptSettle(p) ==
    /\ procs[p].pc = "decrypting"
    /\ LET snapshot == ops[procs[p].snapOp].result IN
       IF DecryptOk(snapshot.content, procs[p].key)
       THEN /\ procs' = [procs EXCEPT ![p].pc = "getDocument",
                                      ![p].content = Plain(snapshot.content.text),
                                      ![p].op = Len(ops) + 1, ![p].docOp = Len(ops) + 1]
            /\ Enqueue("getDocument", procs[p].documentId)
       ELSE /\ procs' = [procs EXCEPT ![p].pc = "rejected"]
            /\ UNCHANGED ops
    /\ UNCHANGED <<encryption, timers, stopped, starts, intervals, cryptoCalls>>
    /\ UNCHANGED <<isReady, useLocalStorageFallback, documents, snapshots, settings, nextId, now>>
    /\ UNCHANGED notHistory

\* restoreSnapshot after storage.getDocument (lines 144-161).  For an
\* encrypted document and a locked module a passphrase that was supplied goes
\* to setPassphrase (lines 149-151), which throws if it is too short and
\* unlocks the module otherwise.
DocumentLoaded(p) ==
    /\ procs[p].pc = "getDocument"
    /\ Settled(ops[procs[p].op])
    /\ LET document == ops[procs[p].op].result IN
       IF ops[procs[p].op].status = "rejected" THEN
            /\ procs' = [procs EXCEPT ![p].pc = "rejected"]
            /\ UNCHANGED <<ops, encryption>>
       ELSE IF document = Null THEN
            /\ procs' = [procs EXCEPT ![p].pc = "done"]
            /\ UNCHANGED <<ops, encryption>>
       ELSE IF DocumentEncrypted(document) /\ procs[p].passphrase # NoPass
               /\ ~encryption.isUnlocked THEN
            /\ IF PassphraseAccepted(procs[p].passphrase)
               THEN /\ encryption' = [passphrase |-> procs[p].passphrase, isUnlocked |-> TRUE]
                    /\ procs' = [procs EXCEPT ![p].pc = "setPassphrase"]
               ELSE /\ procs' = [procs EXCEPT ![p].pc = "rejected",
                                              ![p].unlocked = FALSE]
                    /\ UNCHANGED encryption
            /\ UNCHANGED ops
       ELSE IF DocumentEncrypted(document) THEN
            /\ procs' = [procs EXCEPT ![p].pc =
                            IF encryption.isUnlocked THEN "encrypting" ELSE "rejected",
                         ![p].unlocked = encryption.isUnlocked,
                         ![p].key = encryption.passphrase]
            /\ UNCHANGED <<ops, encryption>>
       ELSE /\ procs' = [procs EXCEPT ![p].pc = "savingDoc", ![p].op = Len(ops) + 1,
                                      ![p].unlocked = encryption.isUnlocked]
            /\ Enqueue("saveDocument",
                       [document EXCEPT !.content = procs[p].content, !.encrypted = FALSE])
            /\ UNCHANGED encryption
    /\ UNCHANGED <<timers, stopped, starts, intervals, cryptoCalls>>
    /\ UNCHANGED <<isReady, useLocalStorageFallback, documents, snapshots, settings, nextId, now>>
    /\ UNCHANGED notHistory

\* restoreSnapshot after its await of setPassphrase (lines 152-155): the
\* module is tested again, and encrypt() reads the module's passphrase.
PassphraseSet(p) ==
    /\ procs[p].pc = "setPassphrase"
    /\ procs' = [procs EXCEPT ![p].pc =
                    IF encryption.isUnlocked THEN "encrypting" ELSE "rejected",
                 ![p].unlocked = encryption.isUnlocked,
                 ![p].key = encryption.passphrase]
    /\ UNCHANGED <<encryption, timers, stopped, starts, intervals, cryptoCalls>>
    /\ UNCHANGED storageVars
    /\ UNCHANGED notHistory

\* storage.saveDocument has settled (lines 161-164): restoreSnapshot returns.
DocumentSaved(p) ==
    /\ procs[p].pc = "savingDoc"
    /\ Settled(ops[procs[p].op])
    /\ procs' = [procs EXCEPT ![p].pc =
                    IF ops[procs[p].op].status = "fulfilled" THEN "done" ELSE "rejected"]
    /\ UNCHANGED <<encryption, timers, stopped, starts, intervals, cryptoCalls>>
    /\ UNCHANGED storageVars
    /\ UNCHANGED notHistory

\* The storage steps the calls of History lead to.
HistoryStorageNext ==
    \/ StorageInitDone
    \/ \E k \in 1..Len(ops) : OpStart(k)
    \/ \E k \in 1..Len(ops) : OpFail(k)
    \/ \E k \in 1..Len(ops) : ExecSaveSnapshotFallback(k)
    \/ \E k \in 1..Len(ops) : ExecSaveSnapshotCheck(k)
    \/ \E k \in 1..Len(ops) : ExecSaveSnapshotPut(k)
    \/ \E k \in 1..Len(ops) : PruneRead(k)

\* Direct calls of createSnapshot while the module is locked and unlocked.
HistoryNext ==
    \/ HistoryStorageNext
    \/ \E p \in Passphrases : setPassphrase(p)
    \/ lock
    \/ \E d \in HistoryDocs, e \in BOOLEAN : createSnapshot(d, e)
    \/ \E p \in 1..Len(procs) : EncryptSettle(p)
    \/ \E p \in 1..Len(procs) : SnapshotSaved(p)
    \/ \E p \in 1..Len(procs) : SnapshotsPruned(p)

\* Auto-snapshot intervals started, switched and ticking.
AutoSnapshotNext ==
    \/ HistoryStorageNext
    \/ \E p \in Passphrases : setPassphrase(p)
    \/ \E d \in HistoryDocs, e \in BOOLEAN : startAutoSnapshot(d, e)
    \/ \E d \in HistoryDocs : stopAutoSnapshot(d)
    \/ StopAllAutoSnapshotsCall
    \/ \E t \in timers : TimerTick(t)
    \/ \E p \in 1..Len(procs) : EncryptSettle(p)
    \/ \E p \in 1..Len(procs) : SnapshotSaved(p)
    \/ \E p \in 1..Len(procs) : SnapshotsPruned(p)

MaxSnapshotCalls == 51

MaxTies == 1

\* A caller creating snapshots of one document one after the other, as
\* `await history.createSnapshot(id, content)` in a loop.  Time passes
\* between two calls, except that up to MaxTies times the next snapshot is
\* made within the same millisecond as the one before.
SnapshotLoopCall ==
    /\ Len(procs) < MaxSnapshotCalls
    /\ \A p \in 1..Len(procs) : procs[p].pc = "done"
    /\ BeginCreate(DocA, Plain(ContentOk), FALSE, FALSE)
    /\ IF Len(procs) = 0 THEN now' = now
       ELSE \/ now' = now + 1
            \/ Len(procs) - now < MaxTies /\ now' = now
    /\ UNCHANGED <<encryption, timers, stopped, starts, intervals, cryptoCalls>>
    /\ UNCHANGED <<isReady, useLocalStorageFallback, documents, snapshots, settings, nextId>>
    /\ UNCHANGED notHistory

PruneNext ==
    \/ StorageInitDone
    \/ \E k \in 1..Len(ops) : OpStart(k)
    \/ \E k \in 1..Len(ops) : ExecSaveSnapshotFallback(k)
    \/ \E k \in 1..Len(ops) : ExecSaveSnapshotCheck(k)
    \/ \E k \in 1..Len(ops) : ExecSaveSnapshotPut(k)
    \/ \E k \in 1..Len(ops) : PruneRead(k)
    \/ SnapshotLoopCall
    \/ \E p \in 1..Len(procs) : SnapshotSaved(p)
    \/ \E p \in 1..Len(procs) : SnapshotsPruned(p)

RestoreNext ==
    \/ StorageInitDone
    \/ \E k \in 1..Len(ops) : OpStart(k)
    \/ \E k \in 1..Len(ops) : OpFail(k)
    \/ \E k \in 1..Len(ops) : ExecGetSnapshot(k)
    \/ \E k \in 1..Len(ops) : ExecGetDocument(k)
    \/ \E k \in 1..Len(ops) : ExecSaveDocument(k)
    \/ \E p \in Passphrases : setPassphrase(p)
    \/ lock
    \/ \E d \in HistoryDocs, s \in {GeneratedId(0), GeneratedId(1)}, k \in PassphraseArgs :
            restoreSnapshot(d, s, k)
    \/ \E p \in 1..Len(procs) : SnapshotLoaded(p)
    \/ \E p \in 1..Len(procs) : DecryptSettle(p)
    \/ \E p \in 1..Len(procs) : DocumentLoaded(p)
    \/ \E p \in 1..Len(procs) : PassphraseSet(p)
    \/ \E p \in 1..Len(procs) : EncryptSettle(p)
    \/ \E p \in 1..Len(procs) : DocumentSaved(p)


(***************************************************************************)
(* Preview: the debounced render (unnamed/part_003)                        *)
(***************************************************************************)
renderDelay == 150

StepsPerDelay == 3

\* The model's unit of time.
TimeStep == renderDelay \div StepsPerDelay

MaxTimeSteps == 8

MaxRenders == 3

PreviewContents == {<<"#", " ", "A">>, <<"#", " ", "B">>}

\* parser.parse(content), kept as the markdown it was made from.
Html(content) == [html |-> content]

\* clearTimeout(id): a pending timer is cancelled; a timer that has fired
\* is left as it is.
ClearTimeoutNoop(ts, id) == ts

ClearTimeout(ts, id) ==
    IF id > 0 /\ ts[id].state = "pending" THEN [ts EXCEPT ![id].state = "cleared"] ELSE ts

\* render (lines 54-62).
render(content) ==
    /\ Len(ptimers) < MaxRenders
    /\ ptimers' = Append(IF renderTimeout # 0 THEN ClearTimeout(ptimers, renderTimeout)
                                              ELSE ptimers,
                         [content |-> content, setAt |-> ptime, due |-> ptime + renderDelay,
                          state |-> "pending"])
    /\ renderTimeout' = Len(ptimers) + 1
    /\ UNCHANGED <<ptime, doRenders, lastContent, container>>
    /\ UNCHANGED notPreview

\* The timer of render fires, not before its delay has passed, and calls
\* doRender (lines 59-61, 68-83): content equal to lastContent is skipped,
\* other content is parsed into the container.
RenderTimeoutFires(t) ==
    /\ ptimers[t].state = "pending"
    /\ ptime >= ptimers[t].due
    /\ ptimers' = [ptimers EXCEPT ![t].state = "fired"]
    /\ doRenders' = Append(doRenders, [timer |-> t, content |-> ptimers[t].content, at |-> ptime])
    /\ IF ptimers[t].content = lastContent
       THEN UNCHANGED <<lastContent, container>>
       ELSE /\ lastContent' = ptimers[t].content
            /\ container' = Html(ptimers[t].content)
    /\ UNCHANGED <<ptime, renderTimeout>>
    /\ UNCHANGED notPreview

\* Time passes; a timer that is due may fire late.
PreviewTimePasses ==
    /\ ptime < MaxTimeSteps * TimeStep
    /\ ptime' = ptime + TimeStep
    /\ UNCHANGED <<renderTimeout, ptimers, doRenders, lastContent, container>>
    /\ UNCHANGED notPreview

PreviewNext ==
    \/ \E content \in PreviewContents : render(content)
    \/ \E t \in 1..Len(ptimers) : RenderTimeoutFires(t)
    \/ PreviewTimePasses

\* doRender(content) (lines 68-83) for a Preview with its container and its
\* parser: what it leaves in lastContent and in the container, and whether
\* it has called parser.parse
doRender(content) ==
    IF content = lastContent
    THEN [lastContent |-> lastContent, container |-> container, parsed |-> FALSE]
    ELSE [lastContent |-> content, container |-> Html(content), parsed |-> TRUE]

MaxThemeCalls == 1

Themes == {"light", "dark", "high-contrast"}

\* updateTheme(theme) (lines 298-324): mermaid and the stylesheet link of
\* highlight.js are there or not; the call ends with doRender(lastContent)
\* when lastContent is not empty
updateTheme(theme) ==
    /\ Len(themes.calls) < MaxThemeCalls
    /\ \E mermaidDefined, hljsLink \in BOOLEAN :
        LET rendered == IF lastContent # <<>> THEN doRender(lastContent)
                        ELSE [lastContent |-> lastContent, container |-> container, parsed |-> FALSE]
        IN  /\ themes' =
                [mermaid |-> IF ~mermaidDefined THEN themes.mermaid
                             ELSE IF theme = "dark" THEN "dark"
                             ELSE IF theme = "high-contrast" THEN "dark" ELSE "default",
                 hljs |-> IF ~hljsLink THEN themes.hljs
                          ELSE IF theme = "light" THEN "github.min.css" ELSE "github-dark.min.css",
                 calls |-> Append(themes.calls,
                                  [content |-> lastContent, parsed |-> rendered.parsed,
                                   replaced |-> rendered.container # container])]
            /\ lastContent' = rendered.lastContent
            /\ container' = rendered.container
    /\ UNCHANGED <<ptime, renderTimeout, ptimers, doRenders>>
    /\ UNCHANGED notPreviewNorTheme

ThemeNext ==
    \/ PreviewNext
    \/ \E theme \in Themes : updateTheme(theme)

(***************************************************************************)
(* Tabs (js/modules/tabs.js)                                               *)
(***************************************************************************)
MaxTabs == 3

MaxCloses == 2

TabIds == {tabs[i].id : i \in 1..Len(tabs)}

\* findIndex, from 0; -1 when no tab has the id.
TabIndex(id) ==
    IF id \in TabIds
    THEN (CHOOSE i \in 1..Len(tabs) : tabs[i].id = id /\ \A j \in 1..(i - 1) : tabs[j].id # id) - 1
    ELSE 0 - 1

\* this.tabs.splice(index, 1): an index at or past the end removes nothing.
Splice(list, index) ==
    IF index < Len(list)
    THEN SubSeq(list, 1, index) \o SubSeq(list, index + 2, Len(list))
    ELSE list

\* `doc-${Date.now()}` (line 60).
NewTabId == <<"doc-now", now>>

\* setUnsaved (lines 368-378).
setUnsaved(id, unsaved) ==
    /\ id \in TabIds
    /\ tabs[TabIndex(id) + 1].unsaved # unsaved
    /\ tabs' = [tabs EXCEPT ![TabIndex(id) + 1].unsaved = unsaved]
    /\ UNCHANGED <<activeTabId, closers>>
    /\ UNCHANGED storageVars
    /\ UNCHANGED notTabs

\* activateTab (lines 137-155).
activateTab(id) ==
    /\ id \in TabIds
    /\ activeTabId # id
    /\ activeTabId' = id
    /\ UNCHANGED <<tabs, closers>>
    /\ UNCHANGED storageVars
    /\ UNCHANGED notTabs

\* closeTab up to its first await (lines 160-174): the index of the tab is
\* taken, then the confirmation of an unsaved tab is awaited, or
\* storage.deleteDocument is called.
closeTab(id) ==
    /\ Len(closers) < MaxCloses
    /\ TabIndex(id) # 0 - 1
    /\ LET c == [id |-> id, tabIndex |-> TabIndex(id), pc |-> "start", op |-> 0] IN
       IF tabs[TabIndex(id) + 1].unsaved
       THEN /\ closers' = Append(closers, [c EXCEPT !.pc = "confirming"])
            /\ UNCHANGED ops
       ELSE /\ closers' = Append(closers, [c EXCEPT !.pc = "deleting", !.op = Len(ops) + 1])
            /\ Enqueue("deleteDocument", id)
    /\ UNCHANGED <<tabs, activeTabId>>
    /\ UNCHANGED <<isReady, useLocalStorageFallback, documents, snapshots, settings, nextId, now>>
    /\ UNCHANGED notTabs

\* The modal of confirmCloseTab is answered (lines 205-262).  Every closeTab
\* waiting for a confirmation holds the one closeConfirmModalPromise, so all
\* of them resume with the answer, in call order (lines 168-174).
ConfirmAnswer(confirmed) ==
    LET waiting == {c \in 1..Len(closers) : closers[c].pc = "confirming"}
        rank(c) == Cardinality({d \in waiting : d <= c})
        unsettled == Cardinality({j \in 1..Len(ops) : ~Settled(ops[j])})
        nth(n) == CHOOSE c \in waiting : rank(c) = n
    IN  /\ waiting # {}
        /\ IF confirmed
           THEN /\ closers' = [c \in 1..Len(closers) |->
                        IF c \in waiting
                        THEN [closers[c] EXCEPT !.pc = "deleting", !.op = Len(ops) + rank(c)]
                        ELSE closers[c]]
                /\ ops' = ops \o [n \in 1..Cardinality(waiting) |->
                        [NewOp("deleteDocument", closers[nth(n)].id)
                            EXCEPT !.pending = unsettled + n - 1]]
           ELSE /\ closers' = [c \in 1..Len(closers) |->
                        IF c \in waiting THEN [closers[c] EXCEPT !.pc = "cancelled"]
                        ELSE closers[c]]
                /\ UNCHANGED ops
        /\ UNCHANGED <<tabs, activeTabId>>
        /\ UNCHANGED <<isReady, useLocalStorageFallback, documents, snapshots, settings, nextId, now>>
        /\ UNCHANGED notTabs

\* closeTab after storage.deleteDocument (lines 175-199): a rejection is
\* logged and closeTab returns; otherwise the element at the index taken at
\* the call is spliced out, and another tab is activated or, with no tab
\* left, createTab() makes one and saves it (lines 59-90).
DeleteSettled(c) ==
    /\ closers[c].pc = "deleting"
    /\ Settled(ops[closers[c].op])
    /\ IF ops[closers[c].op].status = "rejected"
       THEN /\ closers' = [closers EXCEPT ![c].pc = "failed"]
            /\ UNCHANGED <<tabs, activeTabId, ops>>
       ELSE LET left == Splice(tabs, closers[c].tabIndex) IN
            IF Len(left) = 0
            THEN /\ tabs' = <<[id |-> NewTabId, unsaved |-> FALSE]>>
                 /\ activeTabId' = NewTabId
                 /\ closers' = [closers EXCEPT ![c].pc = "creating", ![c].op = Len(ops) + 1]
                 /\ Enqueue("saveDocument",
                        [id |-> NewTabId, title |-> <<"U", "n", "t", "i", "t", "l", "e", "d">>,
                         content |-> Plain(<<>>), encrypted |-> FALSE,
                         createdAt |-> now, updatedAt |-> NoDate])
            ELSE /\ tabs' = left
                 /\ activeTabId' =
                        IF activeTabId = closers[c].id
                        THEN left[Min(closers[c].tabIndex, Len(left) - 1) + 1].id
                        ELSE activeTabId
                 /\ closers' = [closers EXCEPT ![c].pc = "done"]
                 /\ UNCHANGED ops
    /\ UNCHANGED <<isReady, useLocalStorageFallback, documents, snapshots, settings, nextId, now>>
    /\ UNCHANGED notTabs

\* The saveDocument of createTab() has settled (lines 81-89, 195): closeTab
\* returns, or rejects with it.
CreateSettled(c) ==
    /\ closers[c].pc = "creating"
    /\ Settled(ops[closers[c].op])
    /\ closers' = [closers EXCEPT ![c].pc =
                      IF ops[closers[c].op].status = "fulfilled" THEN "done" ELSE "rejected"]
    /\ UNCHANGED <<tabs, activeTabId>>
    /\ UNCHANGED storageVars
    /\ UNCHANGED notTabs

TabDocs == {DocId(n) : n \in 1..MaxTabs}

TabsNext ==
    \/ StorageInitDone
    \/ ClockTick
    \/ \E k \in 1..Len(ops) : OpStart(k)
    \/ \E k \in 1..Len(ops) : OpFail(k)
    \/ \E k \in 1..Len(ops) : ExecDeleteDocument(k)
    \/ \E k \in 1..Len(ops) : ExecSaveDocument(k)
    \/ \E id \in TabDocs, u \in BOOLEAN : setUnsaved(id, u)
    \/ \E id \in TabDocs : activateTab(id)
    \/ \E id \in TabDocs : closeTab(id)
    \/ \E confirmed \in BOOLEAN : ConfirmAnswer(confirmed)
    \/ \E c \in 1..Len(closers) : DeleteSettled(c)
    \/ \E c \in 1..Len(closers) : CreateSettled(c)

(***************************************************************************)
(* Parser (unnamed/part_001)                                               *)
(* Texts are strings; positions count from 1.  A regular expression is an  *)
(* operator that tries a match at one position of a text and gives the     *)
(* position after the match with the captured groups.                      *)
(***************************************************************************)
CharAt(s, i) == SubSeq(s, i, i)

\* s.slice(i - 1)
From(s, i) == SubSeq(s, i, Len(s))

CharsOf(s) == { CharAt(s, k) : k \in 1..Len(s) }

Least(S) == CHOOSE x \in S : \A y \in S : x <= y

Greatest(S) == CHOOSE x \in S : \A y \in S : x >= y

\* the least element of a set of positions, 0 for the empty set
FirstOf(S) == IF S = {} THEN 0 ELSE Least(S)

\* the two halves of a text of two or more characters
FirstHalf(s) == SubSeq(s, 1, Len(s) \div 2)

SecondHalf(s) == SubSeq(s, (Len(s) \div 2) + 1, Len(s))

\* The backquote, which a string of this language cannot hold, is written ^.
Backquote == "^"

Fence == Backquote \o Backquote \o Backquote

Uppercase == "ABCDEFGHIJKLMNOPQRSTUVWXYZ"

Lowercase == "abcdefghijklmnopqrstuvwxyz"

\* \d
DigitChars == CharsOf("0123456789")

\* \w
WordChars == CharsOf(Uppercase) \cup CharsOf(Lowercase) \cup DigitChars \cup {"_"}

\* \s
SpaceChars == {" ", "\t", "\n", "\r", "\f"}

\* the characters that . does not match
LineTerminators == {"\n", "\r"}

LowerMap ==
    [c \in CharsOf(Uppercase) |->
        CharAt(Lowercase, CHOOSE k \in 1..Len(Uppercase) : CharAt(Uppercase, k) = c)]

Lower(c) == IF c \in DOMAIN LowerMap THEN LowerMap[c] ELSE c

RECURSIVE toLowerCase(_)
\* String.prototype.toLowerCase, character by character
toLowerCase(s) ==
    IF Len(s) <= 1 THEN Lower(s)
    ELSE toLowerCase(FirstHalf(s)) \o toLowerCase(SecondHalf(s))

\* the literal lit stands at position i of s
At(s, i, lit) ==
    /\ i + Len(lit) - 1 <= Len(s)
    /\ SubSeq(s, i, i + Len(lit) - 1) = lit

\* the same under the i flag; lit is in lower case
AtI(s, i, lit) ==
    /\ i + Len(lit) - 1 <= Len(s)
    /\ Lower(CharAt(s, i)) = CharAt(lit, 1)
    /\ toLowerCase(SubSeq(s, i, i + Len(lit) - 1)) = lit

\* The position after the longest run, from position i of s, of characters
\* of the class: the characters in C when inC, the characters not in C
\* otherwise.  A greedy quantifier over a class takes this run.
RunEnd(s, i, C, inC) ==
    IF i > Len(s) THEN i
    ELSE Least({ k \in i..(Len(s) + 1) : k > Len(s) \/ (CharAt(s, k) \in C) /= inC })

\* The first position of the longest run of characters of C that ends at i.
RunStart(s, i, C) ==
    LET stops == { k \in 1..i : CharAt(s, k) \notin C } IN
    IF stops = {} THEN 1 ELSE Greatest(stops) + 1

\* String.prototype.trim
trim(s) ==
    LET a == RunEnd(s, 1, SpaceChars, TRUE) IN
    IF a > Len(s) THEN "" ELSE SubSeq(s, a, RunStart(s, Len(s), SpaceChars) - 1)

RECURSIVE split(_, _)
\* String.prototype.split on a one-character separator
split(text, sep) ==
    LET hits == { k \in 1..Len(text) : CharAt(text, k) = sep } IN
    IF hits = {} THEN <<text>>
    ELSE <<SubSeq(text, 1, Least(hits) - 1)>> \o split(From(text, Least(hits) + 1), sep)

RECURSIVE NumStr(_)
\* a number in a template literal
NumStr(n) ==
    IF n < 10 THEN CharAt("0123456789", n + 1)
    ELSE NumStr(n \div 10) \o CharAt("0123456789", (n % 10) + 1)

\* ---- the result of a match ----
NoMatch == [end |-> 0, g1 |-> "", g2 |-> ""]

Matched(e, a, b) == [end |-> e, g1 |-> a, g2 |-> b]

\* open, one or more characters outside stop, close.  The first character
\* of close is in stop, so the greedy run ends where close has to begin and
\* no shorter run matches.
Enclosed(s, i, open, stop, close) ==
    IF ~At(s, i, open) THEN NoMatch
    ELSE LET b == i + Len(open)
             j == RunEnd(s, b, stop, FALSE)
         IN  IF j > b /\ At(s, j, close)
             THEN Matched(j + Len(close), SubSeq(s, b, j - 1), "")
             ELSE NoMatch

\* The first position from j where close stands, with no line terminator
\* before it; 0 when there is none.
LazyClose(s, j, close) ==
    LET stops == { k \in j..Len(s) : At(s, k, close) \/ CharAt(s, k) \in LineTerminators } IN
    IF stops = {} THEN 0
    ELSE IF At(s, Least(stops), close) THEN Least(stops)
    ELSE 0

\* open(.+?)close: as few characters as possible, none a line terminator
EnclosedLazy(s, i, open, close) ==
    IF ~At(s, i, open) THEN NoMatch
    ELSE LET b == i + Len(open) IN
         IF b > Len(s) THEN NoMatch
         ELSE IF CharAt(s, b) \in LineTerminators THEN NoMatch
         ELSE LET j == LazyClose(s, b + 1, close) IN
              IF j = 0 THEN NoMatch
              ELSE Matched(j + Len(close), SubSeq(s, b, j - 1), "")

\* the first position from i where lit stands under the i flag, 0 for none
FirstAtI(s, i, lit) ==
    LET hits == { k \in i..Len(s) : AtI(s, k, lit) } IN
    IF hits = {} THEN 0 ELSE Least(hits)

\* open[\s\S]*?close under the i flag
EnclosedAny(s, i, open, close) ==
    IF ~AtI(s, i, open) THEN NoMatch
    ELSE LET j == FirstAtI(s, i + Len(open), close) IN
         IF j = 0 THEN NoMatch ELSE Matched(j + Len(close), "", "")

\* ---- the inline expressions of parseInline and parseMathInline ----
\* /\$\$([^$]+)\$\$/g
mathBlockRe(s, i) == Enclosed(s, i, "$$", {"$"}, "$$")

\* /\$([^$\n]+)\$/g
mathInlineRe(s, i) == Enclosed(s, i, "$", {"$", "\n"}, "$")

\* \]\(([^)]+)\) from position j, after a match from i with the group g
urlPart(s, i, j, g) ==
    IF ~At(s, j, "](") THEN NoMatch
    ELSE LET k == RunEnd(s, j + 2, {")"}, FALSE) IN
         IF k > j + 2 /\ At(s, k, ")")
         THEN Matched(k + 1, g, SubSeq(s, j + 2, k - 1))
         ELSE NoMatch

\* /!\[([^\]]*)\]\(([^)]+)\)/g
imageRe(s, i) ==
    IF ~At(s, i, "![") THEN NoMatch
    ELSE LET j == RunEnd(s, i + 2, {"]"}, FALSE) IN
         urlPart(s, i, j, SubSeq(s, i + 2, j - 1))

\* /\[([^\]]+)\]\(([^)]+)\)/g
linkRe(s, i) ==
    IF ~At(s, i, "[") THEN NoMatch
    ELSE LET j == RunEnd(s, i + 1, {"]"}, FALSE) IN
         IF j = i + 1 THEN NoMatch ELSE urlPart(s, i, j, SubSeq(s, i + 1, j - 1))

\* /&lt;(https?:\/\/[^&]+)&gt;/g
autolinkRe(s, i) ==
    IF ~At(s, i, "&lt;http") THEN NoMatch
    ELSE LET p == i + 8
             q == IF At(s, p, "s://") THEN p + 4 ELSE IF At(s, p, "://") THEN p + 3 ELSE 0
         IN  IF q = 0 THEN NoMatch
             ELSE LET k == RunEnd(s, q, {"&"}, FALSE) IN
                  IF k > q /\ At(s, k, "&gt;")
                  THEN Matched(k + 4, SubSeq(s, i + 4, k - 1), "")
                  ELSE NoMatch

\* /\*\*(.+?)\*\*/g and /__(.+?)__/g
boldRe(s, i, mark) == EnclosedLazy(s, i, mark \o mark, mark \o mark)

\* /(?<!\w)\*([^*]+)\*(?!\w)/g and /(?<!\w)_([^_]+)_(?!\w)/g
italicRe(s, i, mark) ==
    IF ~At(s, i, mark) THEN NoMatch
    ELSE IF i > 1 /\ CharAt(s, i - 1) \in WordChars THEN NoMatch
    ELSE LET m == Enclosed(s, i, mark, {mark}, mark) IN
         IF m.end = 0 THEN NoMatch
         ELSE IF m.end <= Len(s) /\ CharAt(s, m.end) \in WordChars THEN NoMatch
         ELSE m

\* /~~(.+?)~~/g
strikethroughRe(s, i) == EnclosedLazy(s, i, "~~", "~~")

\* /`([^`]+)`/g
inlineCodeRe(s, i) == Enclosed(s, i, Backquote, {Backquote}, Backquote)

\* [a-z0-9_+-] under the i flag
EmojiNameChars == WordChars \cup {"+", "-"}

\* /:([a-z0-9_+-]+):/gi; the second group is the whole match
emojiRe(s, i) ==
    IF ~At(s, i, ":") THEN NoMatch
    ELSE LET j == RunEnd(s, i + 1, EmojiNameChars, TRUE) IN
         IF j > i + 1 /\ At(s, j, ":")
         THEN Matched(j + 1, SubSeq(s, i + 1, j - 1), SubSeq(s, i, j))
         ELSE NoMatch

\* /  $/gm
lineBreakRe(s, i) ==
    IF ~At(s, i, "  ") THEN NoMatch
    ELSE IF i + 2 > Len(s) THEN Matched(i + 2, "", "")
    ELSE IF CharAt(s, i + 2) \in LineTerminators THEN Matched(i + 2, "", "")
    ELSE NoMatch

\* ---- the expressions of slugify ----
\* /[^\w\s-]/g
slugStripRe(s, i) ==
    IF CharAt(s, i) \in WordChars \cup SpaceChars \cup {"-"} THEN NoMatch
    ELSE Matched(i + 1, "", "")

\* /[\s_-]+/g
slugDashRe(s, i) ==
    LET j == RunEnd(s, i, SpaceChars \cup {"_", "-"}, TRUE) IN
    IF j > i THEN Matched(j, "", "") ELSE NoMatch

\* /^-+|-+$/g
slugTrimRe(s, i) ==
    LET j == RunEnd(s, i, {"-"}, TRUE) IN
    IF j > i /\ (i = 1 \/ j > Len(s)) THEN Matched(j, "", "") ELSE NoMatch

\* ---- the expressions of the fallback of sanitize ----
\* /on\w+\s*=/gi: the greedy \w+ and \s* end at a character that the next
\* part has to match, so only the longest runs can match
onEventRe(s, i) ==
    IF ~AtI(s, i, "on") THEN NoMatch
    ELSE LET j == RunEnd(s, i + 2, WordChars, TRUE)
             k == RunEnd(s, j, SpaceChars, TRUE)
         IN  IF j > i + 2 /\ At(s, k, "=") THEN Matched(k + 1, "", "") ELSE NoMatch

\* /javascript:/gi
javascriptRe(s, i) ==
    IF AtI(s, i, "javascript:") THEN Matched(i + Len("javascript:"), "", "") ELSE NoMatch

\* /\r\n/g and /\r/g of parse
crlfRe(s, i) == IF At(s, i, "\r\n") THEN Matched(i + 2, "", "") ELSE NoMatch

crRe(s, i) == IF At(s, i, "\r") THEN Matched(i + 1, "", "") ELSE NoMatch

\* ---- escapeHtml and the emoji map ----
\* the map of escapeHtml on one character
EscapeChar(char) ==
    CASE char = "&" -> "&amp;"
      [] char = "<" -> "&lt;"
      [] char = ">" -> "&gt;"
      [] char = "\"" -> "&quot;"
      [] char = "'" -> "&#39;"
      [] OTHER -> char

RECURSIVE escapeHtml(_)
\* text.replace(/[&<>"']/g, char => map[char])
escapeHtml(text) ==
    IF Len(text) <= 1 THEN EscapeChar(text)
    ELSE escapeHtml(FirstHalf(text)) \o escapeHtml(SecondHalf(text))

\* Some keys of emojiMap; "@" stands for the pictograph of a key.
emojiMap == [name \in {"x", "v", "tm", "fu"} |-> "@"]

\* ---- String.prototype.replace with a global expression ----
Match(re, s, i) ==
    CASE re = "mathBlock" -> mathBlockRe(s, i)
      [] re = "mathInline" -> mathInlineRe(s, i)
      [] re = "image" -> imageRe(s, i)
      [] re = "link" -> linkRe(s, i)
      [] re = "autolink" -> autolinkRe(s, i)
      [] re = "bold*" -> boldRe(s, i, "*")
      [] re = "bold_" -> boldRe(s, i, "_")
      [] re = "italic*" -> italicRe(s, i, "*")
      [] re = "italic_" -> italicRe(s, i, "_")
      [] re = "strikethrough" -> strikethroughRe(s, i)
      [] re = "inlineCode" -> inlineCodeRe(s, i)
      [] re = "emoji" -> emojiRe(s, i)
      [] re = "lineBreak" -> lineBreakRe(s, i)
      [] re = "slugStrip" -> slugStripRe(s, i)
      [] re = "slugDash" -> slugDashRe(s, i)
      [] re = "slugTrim" -> slugTrimRe(s, i)
      [] re = "script" -> EnclosedAny(s, i, "<script", "</script>")
      [] re = "style" -> EnclosedAny(s, i, "<style", "</style>")
      [] re = "iframe" -> EnclosedAny(s, i, "<iframe", "</iframe>")
      [] re = "object" -> EnclosedAny(s, i, "<object", "</object>")
      [] re = "embed" -> EnclosedAny(s, i, "<embed", ">")
      [] re = "onEvent" -> onEventRe(s, i)
      [] re = "javascript" -> javascriptRe(s, i)
      [] re = "crlf" -> crlfRe(s, i)
      [] re = "cr" -> crRe(s, i)

MathSpan(class, math) ==
    "<span class=\"" \o class \o "\" data-math=\"" \o escapeHtml(math) \o "\">"
        \o escapeHtml(math) \o "</span>"

\* the replacement of a match m of re
Replacement(re, m) ==
    CASE re = "mathBlock" -> MathSpan("math-block", m.g1)
      [] re = "mathInline" -> MathSpan("math-inline", m.g1)
      [] re = "image" -> "<img src=\"" \o m.g2 \o "\" alt=\"" \o m.g1 \o "\">"
      [] re = "link" ->
            "<a href=\"" \o m.g2 \o "\" target=\"_blank\" rel=\"noopener\">" \o m.g1 \o "</a>"
      [] re = "autolink" ->
            "<a href=\"" \o m.g1 \o "\" target=\"_blank\" rel=\"noopener\">" \o m.g1 \o "</a>"
      [] re \in {"bold*", "bold_"} -> "<strong>" \o m.g1 \o "</strong>"
      [] re \in {"italic*", "italic_"} -> "<em>" \o m.g1 \o "</em>"
      [] re = "strikethrough" -> "<del>" \o m.g1 \o "</del>"
      [] re = "inlineCode" -> "<code>" \o m.g1 \o "</code>"
      [] re = "emoji" ->
            IF toLowerCase(m.g1) \in DOMAIN emojiMap THEN emojiMap[toLowerCase(m.g1)] ELSE m.g2
      [] re = "lineBreak" -> "<br>"
      [] re = "slugDash" -> "-"
      [] re = "onEvent" -> "data-blocked-event="
      [] re = "javascript" -> "blocked:"
      [] re \in {"crlf", "cr"} -> "\n"
      [] OTHER -> ""

RECURSIVE ReplaceAll(_, _, _)
\* the match m at position j replaced, and the search going on after it
ReplaceMatch(re, s, i, j, m) ==
    SubSeq(s, i, j - 1) \o Replacement(re, m) \o ReplaceAll(re, s, m.end)

\* the rest of s from position i where the next match is at position j
ReplaceFrom(re, s, i, j) ==
    IF j = 0 THEN From(s, i) ELSE ReplaceMatch(re, s, i, j, Match(re, s, j))

\* s.replace(re, ...) from position i: the matches are taken from left to
\* right and the search goes on after each match.
ReplaceAll(re, s, i) ==
    ReplaceFrom(re, s, i, FirstOf({ j \in i..Len(s) : Match(re, s, j).end > 0 }))

replace(s, re) == ReplaceAll(re, s, 1)

parseMathInline(text) == replace(replace(text, "mathBlock"), "mathInline")

RECURSIVE ReplaceEach(_, _)
\* the chain text = text.replace(...) over the expressions res; a replace
\* leaves the empty text empty
ReplaceEach(text, res) ==
    IF text = "" THEN ""
    ELSE IF res = <<>> THEN text
    ELSE ReplaceEach(replace(text, Head(res)), Tail(res))

parseInline(text) ==
    IF text = "" THEN ""
    ELSE ReplaceEach(parseMathInline(escapeHtml(text)),
            <<"image", "link", "autolink", "bold*", "bold_", "italic*", "italic_",
              "strikethrough", "inlineCode", "emoji", "lineBreak">>)

slugify(text) ==
    ReplaceEach(toLowerCase(text), <<"slugStrip", "slugDash", "slugTrim">>)

\* ---- the block patterns ----
\* \s+(.+)$ from position p of a line: the position where the group begins,
\* 0 for no match.  When only white space follows, \s+ gives its last
\* character back to the group.
TextAfterSpaces(line, p) ==
    LET q == RunEnd(line, p, SpaceChars, TRUE) IN
    IF q = p THEN 0
    ELSE IF q <= Len(line) THEN q
    ELSE IF q - p >= 2 THEN Len(line)
    ELSE 0

\* /^(#{1,6})\s+(.+)$/
heading(line) ==
    LET h == RunEnd(line, 1, {"#"}, TRUE) - 1
        t == TextAfterSpaces(line, h + 1)
    IN  IF h >= 1 /\ h <= 6 /\ t > 0
        THEN [ok |-> TRUE, level |-> h, text |-> From(line, t)]
        ELSE [ok |-> FALSE]

\* /^```(\w*)$/
codeBlockStart(line) ==
    IF At(line, 1, Fence) /\ RunEnd(line, 4, WordChars, TRUE) > Len(line)
    THEN [ok |-> TRUE, lang |-> From(line, 4)]
    ELSE [ok |-> FALSE]

\* /^```$/
codeBlockEnd(line) == line = Fence

\* /^>\s?(.*)$/
blockquote(line) ==
    IF ~At(line, 1, ">") THEN [ok |-> FALSE]
    ELSE IF Len(line) >= 2 /\ CharAt(line, 2) \in SpaceChars
         THEN [ok |-> TRUE, text |-> From(line, 3)]
         ELSE [ok |-> TRUE, text |-> From(line, 2)]

\* /^(?:---+|___+|\*\*\*+)$/
horizontalRule(line) ==
    /\ Len(line) >= 3
    /\ \E c \in {"-", "_", "*"} : RunEnd(line, 1, {c}, TRUE) > Len(line)

\* /^(\s*)[-*+]\s+(.+)$/
unorderedList(line) ==
    LET w == RunEnd(line, 1, SpaceChars, TRUE)
        t == TextAfterSpaces(line, w + 1)
    IN  IF w <= Len(line) /\ CharAt(line, w) \in {"-", "*", "+"} /\ t > 0
        THEN [ok |-> TRUE, indent |-> w - 1, content |-> From(line, t)]
        ELSE [ok |-> FALSE]

\* /^(\s*)(\d+)\.\s+(.+)$/
orderedList(line) ==
    LET w == RunEnd(line, 1, SpaceChars, TRUE)
        d == RunEnd(line, w, DigitChars, TRUE)
        t == TextAfterSpaces(line, d + 1)
    IN  IF d > w /\ At(line, d, ".") /\ t > 0
        THEN [ok |-> TRUE, indent |-> w - 1, content |-> From(line, t)]
        ELSE [ok |-> FALSE]

\* /^(\s*)[-*+]\s+\[([ xX])\]\s+(.+)$/
taskList(line) ==
    LET w == RunEnd(line, 1, SpaceChars, TRUE)
        q == RunEnd(line, w + 1, SpaceChars, TRUE)
        t == TextAfterSpaces(line, q + 3)
    IN  IF /\ w <= Len(line) /\ CharAt(line, w) \in {"-", "*", "+"}
           /\ q > w + 1 /\ At(line, q, "[") /\ q + 2 <= Len(line)
           /\ CharAt(line, q + 1) \in {" ", "x", "X"} /\ At(line, q + 2, "]")
           /\ t > 0
        THEN [ok |-> TRUE, indent |-> w - 1, mark |-> CharAt(line, q + 1),
              content |-> From(line, t)]
        ELSE [ok |-> FALSE]

\* /^\|(.+)\|$/
table(line) ==
    Len(line) >= 3 /\ At(line, 1, "|") /\ At(line, Len(line), "|")

\* /^\|[\s-:|]+\|$/
tableSeparator(line) ==
    /\ table(line)
    /\ RunEnd(line, 2, SpaceChars \cup {"-", ":", "|"}, TRUE) > Len(line)

isBlockElement(line) ==
    \/ heading(line).ok
    \/ codeBlockStart(line).ok
    \/ blockquote(line).ok
    \/ horizontalRule(trim(line))
    \/ unorderedList(line).ok
    \/ orderedList(line).ok
    \/ table(line)
    \/ taskList(line).ok

\* ---- rendering ----
\* the line argument left out of a call
NoLine == 0 - 1

\* lineAttr of the render methods
LineAttr(line) ==
    IF line = NoLine THEN "" ELSE " data-source-line=\"" \o NumStr(line) \o "\""

Indent(n) == SubSeq("                ", 1, n)

renderCodeBlock(code, language, line) ==
    LET langClass == IF language = "" THEN "" ELSE "language-" \o language
        langLabel == IF language = "" THEN ""
                     ELSE "<span class=\"code-language\">" \o language \o "</span>"
        escapedCode == escapeHtml(code)
    IN  "<div class=\"code-block-wrapper\"" \o LineAttr(line) \o ">\n"
        \o Indent(16) \o langLabel \o "\n"
        \o Indent(16)
        \o "<button class=\"copy-code-btn\" type=\"button\" aria-label=\"Copy code\">Copy</button>\n"
        \o Indent(16) \o "<pre><code class=\"" \o langClass \o "\">" \o escapedCode
        \o "</code></pre>\n"
        \o Indent(12) \o "</div>"

\* renderMermaid with the value of ++this.mermaidId
renderMermaid(code, line, id) ==
    "<div class=\"mermaid\" id=\"mermaid-" \o NumStr(id) \o "\" data-mermaid=\""
        \o escapeHtml(code) \o "\"" \o LineAttr(line) \o ">" \o escapeHtml(code) \o "</div>"

\* the alignments of a separator row
Alignments(row) ==
    LET cells == split(SubSeq(row, 2, Len(row) - 1), "|") IN
    [j \in 1..Len(cells) |->
        LET cell == trim(cells[j]) IN
        IF cell /= "" /\ At(cell, 1, ":") /\ At(cell, Len(cell), ":") THEN "center"
        ELSE IF cell /= "" /\ At(cell, Len(cell), ":") THEN "right"
        ELSE "left"]

RECURSIVE RenderCells(_, _, _, _)
\* cells.forEach of renderTable from cell j
RenderCells(cells, tag, alignments, j) ==
    IF j > Len(cells) THEN ""
    ELSE LET align == IF j <= Len(alignments)
                      THEN " style=\"text-align: " \o alignments[j] \o "\""
                      ELSE ""
         IN  "<" \o tag \o align \o ">" \o parseInline(trim(cells[j])) \o "</" \o tag \o ">"
             \o RenderCells(cells, tag, alignments, j + 1)

RECURSIVE RenderRows(_, _, _, _)
\* the loop of renderTable from row i (counted from 0)
RenderRows(rows, i, isHeader, alignments) ==
    IF i >= Len(rows) THEN ""
    ELSE LET row == rows[i + 1] IN
         IF tableSeparator(row) THEN RenderRows(rows, i + 1, FALSE, Alignments(row))
         ELSE LET cells == split(SubSeq(row, 2, Len(row) - 1), "|")
                  tag == IF isHeader THEN "th" ELSE "td"
                  open == IF isHeader THEN "<thead><tr>"
                          ELSE IF i = 2 THEN "<tbody>"
                          ELSE IF i = 1 /\ ~tableSeparator(rows[2]) THEN "<tbody>"
                          ELSE ""
                  close == IF isHeader /\ i + 1 < Len(rows) /\ tableSeparator(rows[i + 2])
                           THEN "</thead>" ELSE ""
              IN  open \o "<tr>" \o RenderCells(cells, tag, alignments, 1) \o "</tr>" \o close
                  \o RenderRows(rows, i + 1, isHeader, alignments)

renderTable(rows, line) ==
    IF Len(rows) < 2 THEN ""
    ELSE "<table" \o LineAttr(line) \o ">" \o RenderRows(rows, 0, TRUE, <<>>)
         \o "</tbody></table>"

RECURSIVE RenderItems(_, _, _)
\* items.forEach of flushList from item k
RenderItems(items, type, k) ==
    IF k > Len(items) THEN ""
    ELSE (IF type = "task"
          THEN "<li class=\"task-list-item\"><input type=\"checkbox\""
               \o (IF items[k].checked THEN " checked" ELSE "") \o " disabled> "
          ELSE "<li>")
         \o parseInline(items[k].content) \o "</li>"
         \o RenderItems(items, type, k + 1)

flushList(inList, items, type) ==
    IF ~inList THEN ""
    ELSE IF Len(items) = 0 THEN ""
    ELSE LET tag == IF type = "ol" THEN "ol" ELSE "ul" IN
         "<" \o tag \o LineAttr(items[1].line) \o ">" \o RenderItems(items, type, 1)
         \o "</" \o tag \o ">"

\* ---- parseBlocks ----
\* The fields of the Parser that parseBlocks writes.
NewParser == [currentBlockStartLine |-> NoLine, mermaidId |-> 0]

\* The locals of parseBlocks before the loop, with the fields this.
BlocksStart(this, text) ==
    [ lines |-> split(text, "\n"), html |-> "", i |-> 0,
      inCodeBlock |-> FALSE, codeBlockLang |-> "", codeBlockContent |-> "",
      inTable |-> FALSE, tableRows |-> <<>>,
      inBlockquote |-> FALSE, blockquoteContent |-> "",
      inList |-> FALSE, listItems |-> <<>>, listType |-> "",
      this |-> this ]

RECURSIVE parseBlocks(_, _)

\* the template of flushBlockquote around what parseBlocks returned
Quoted(line, inner) ==
    [ html |-> "<blockquote" \o LineAttr(line) \o ">" \o inner.html \o "</blockquote>",
      this |-> inner.this ]

\* flushBlockquote: the html it returns and the fields this after it
flushBlockquote(this, inBlockquote, content, line) ==
    IF ~inBlockquote THEN [html |-> "", this |-> this]
    ELSE IF content = "" THEN [html |-> "", this |-> this]
    ELSE Quoted(line, parseBlocks(this, content))

RECURSIVE ParagraphEnd(_, _)
\* the inner loop of the paragraph branch: the index of its last line
ParagraphEnd(lines, i) ==
    IF i + 1 < Len(lines) THEN
        IF trim(lines[i + 2]) /= "" THEN
            IF ~isBlockElement(lines[i + 2]) THEN ParagraphEnd(lines, i + 1) ELSE i
        ELSE i
    ELSE i

RECURSIVE JoinLines(_, _, _)
\* paragraph = line, then paragraph += ' ' + lines[i] up to line j
JoinLines(lines, i, j) ==
    IF i = j THEN lines[i + 1] ELSE JoinLines(lines, i, j - 1) \o " " \o lines[j + 1]

\* the template of the heading branch
HeadingHtml(level, id, index, text) ==
    "<h" \o level \o " id=\"" \o id \o "\" data-source-line=\"" \o index
        \o "\"><a class=\"heading-anchor\" href=\"#" \o id \o "\">#</a>" \o text
        \o "</h" \o level \o ">"

\* One iteration of the while loop of parseBlocks on the locals st, given
\* what the calls of the iteration return: bq from flushBlockquote, list
\* from flushList, rows from renderTable, inline from parseInline and id
\* from slugify.
LineBranch(st, line, bq, list, rows, inline, id) ==
    LET currentLineIndex == st.i
        \* html += this.flushBlockquote(...); inBlockquote = false; blockquoteContent = ''
        BlockquoteFlushed(s) ==
            [s EXCEPT !.html = @ \o bq.html, !.this = bq.this,
                      !.inBlockquote = FALSE, !.blockquoteContent = ""]
        \* html += this.flushList(inList, listItems, listType); inList = false; listItems = []
        ListFlushed(s) ==
            [s EXCEPT !.html = @ \o list, !.inList = FALSE, !.listItems = <<>>]
        \* the list branches: a list of another type is flushed, the item is pushed
        ItemPushed(s, type, item) ==
            [s EXCEPT !.html = IF ~s.inList \/ s.listType /= type THEN @ \o list ELSE @,
                      !.listItems = IF ~s.inList \/ s.listType /= type
                                    THEN <<item>> ELSE Append(@, item),
                      !.inList = TRUE, !.listType = type, !.i = @ + 1]
        \* after the table branch has been passed by
        s1 == IF st.inTable
              THEN [st EXCEPT !.html = @ \o rows, !.inTable = FALSE, !.tableRows = <<>>]
              ELSE st
        \* after the blockquote branch has been passed by
        s2 == IF s1.inBlockquote THEN BlockquoteFlushed(s1) ELSE s1
        \* after the list branches have been passed by
        s3 == IF s2.inList THEN ListFlushed(s2) ELSE s2
    IN
    IF codeBlockStart(line).ok /\ ~st.inCodeBlock THEN
        [ListFlushed(BlockquoteFlushed(st)) EXCEPT
            !.inCodeBlock = TRUE, !.codeBlockLang = codeBlockStart(line).lang,
            !.codeBlockContent = "",
            !.this.currentBlockStartLine = currentLineIndex, !.i = @ + 1]
    ELSE IF codeBlockEnd(line) /\ st.inCodeBlock THEN
        IF toLowerCase(st.codeBlockLang) = "mermaid"
        THEN [st EXCEPT !.html = @ \o renderMermaid(trim(st.codeBlockContent),
                                          st.this.currentBlockStartLine, st.this.mermaidId + 1),
                        !.this.mermaidId = @ + 1,
                        !.inCodeBlock = FALSE, !.codeBlockLang = "", !.codeBlockContent = "",
                        !.i = @ + 1]
        ELSE [st EXCEPT !.html = @ \o renderCodeBlock(st.codeBlockContent, st.codeBlockLang,
                                          st.this.currentBlockStartLine),
                        !.inCodeBlock = FALSE, !.codeBlockLang = "", !.codeBlockContent = "",
                        !.i = @ + 1]
    ELSE IF st.inCodeBlock THEN
        [st EXCEPT !.codeBlockContent = @ \o (IF @ = "" THEN "" ELSE "\n") \o line,
                   !.i = @ + 1]
    ELSE IF table(line) THEN
        [ListFlushed(BlockquoteFlushed(st)) EXCEPT
            !.inTable = TRUE,
            !.tableRows = IF st.inTable THEN Append(@, line) ELSE <<line>>,
            !.this.currentBlockStartLine = IF st.inTable THEN @ ELSE currentLineIndex,
            !.i = @ + 1]
    ELSE IF blockquote(line).ok THEN
        [ListFlushed(s1) EXCEPT
            !.this.currentBlockStartLine = IF s1.inBlockquote THEN @ ELSE currentLineIndex,
            !.blockquoteContent = @ \o (IF @ = "" THEN "" ELSE "\n") \o blockquote(line).text,
            !.inBlockquote = TRUE, !.i = @ + 1]
    ELSE IF heading(line).ok THEN
        [ListFlushed(s2) EXCEPT
            !.html = @ \o HeadingHtml(NumStr(heading(line).level), id,
                                      NumStr(currentLineIndex), inline),
            !.i = @ + 1]
    ELSE IF horizontalRule(trim(line)) THEN
        [ListFlushed(s2) EXCEPT
            !.html = @ \o "<hr data-source-line=\"" \o NumStr(currentLineIndex) \o "\">",
            !.i = @ + 1]
    ELSE IF taskList(line).ok THEN
        ItemPushed(s2, "task",
            [indent |-> taskList(line).indent, content |-> taskList(line).content,
             checked |-> Lower(taskList(line).mark) = "x", line |-> currentLineIndex])
    ELSE IF unorderedList(line).ok THEN
        ItemPushed(s2, "ul",
            [indent |-> unorderedList(line).indent, content |-> unorderedList(line).content,
             line |-> currentLineIndex])
    ELSE IF orderedList(line).ok THEN
        ItemPushed(s2, "ol",
            [indent |-> orderedList(line).indent, content |-> orderedList(line).content,
             line |-> currentLineIndex])
    ELSE IF trim(line) = "" THEN
        [s3 EXCEPT !.i = @ + 1]
    ELSE
        [s3 EXCEPT !.html = @ \o "<p data-source-line=\"" \o NumStr(currentLineIndex) \o "\">"
                               \o inline \o "</p>",
                   !.i = ParagraphEnd(st.lines, st.i) + 1]

\* The iteration with its calls.  flushBlockquote gets no line where a code
\* block or a table begins, and the line of the block before a line of any
\* other kind but a blockquote line; parseInline gets the text of a heading
\* or the lines of a paragraph.
parseLine(st) ==
    LET line == st.lines[st.i + 1]
        begins == ~st.inCodeBlock /\ (codeBlockStart(line).ok \/ table(line))
        passes == ~st.inCodeBlock /\ ~begins /\ ~blockquote(line).ok
    IN  LineBranch(st, line,
            flushBlockquote(st.this, st.inBlockquote /\ (begins \/ passes),
                st.blockquoteContent,
                IF begins THEN NoLine ELSE st.this.currentBlockStartLine),
            flushList(st.inList, st.listItems, st.listType),
            renderTable(st.tableRows, st.this.currentBlockStartLine),
            parseInline(IF heading(line).ok THEN heading(line).text
                        ELSE JoinLines(st.lines, st.i, ParagraphEnd(st.lines, st.i))),
            slugify(IF heading(line).ok THEN heading(line).text ELSE ""))

RECURSIVE BlocksLoop(_)
\* the while loop of parseBlocks
BlocksLoop(st) ==
    IF st.i < Len(st.lines) THEN BlocksLoop(parseLine(st)) ELSE st

\* "Flush remaining content" and the return of parseBlocks
Flushed(st, code, rows, bq, list) ==
    [html |-> st.html \o code \o rows \o bq.html \o list, this |-> bq.this]

BlocksEnd(st) ==
    Flushed(st,
        IF st.inCodeBlock
        THEN renderCodeBlock(st.codeBlockContent, st.codeBlockLang,
                 st.this.currentBlockStartLine)
        ELSE "",
        IF st.inTable THEN renderTable(st.tableRows, st.this.currentBlockStartLine) ELSE "",
        flushBlockquote(st.this, st.inBlockquote, st.blockquoteContent,
            st.this.currentBlockStartLine),
        IF st.inList THEN flushList(TRUE, st.listItems, st.listType) ELSE "")

\* parseBlocks: the html it returns and the fields this after it
parseBlocks(this, text) == BlocksEnd(BlocksLoop(BlocksStart(this, text)))

\* ---- sanitize ----
\* The fallback chain of replacements.
fallbackSanitize(h) ==
    ReplaceEach(h, <<"script", "style", "iframe", "object", "embed", "onEvent", "javascript">>)

FORBID_TAGS == {"script", "style", "iframe", "object", "embed", "form", "input", "button"}

FORBID_ATTR ==
    {"onerror", "onload", "onclick", "onmouseover", "onmouseout", "onmouseenter", "onmouseleave"}

ADD_ATTR == {"data-math", "data-mermaid", "target", "rel", "class", "id", "data-source-line"}

\* The tags and attributes of DOMPurify's default lists that the parser emits.
ALLOWED_TAGS ==
    {"h1", "h2", "h3", "h4", "h5", "h6", "a", "p", "hr", "ul", "ol", "li", "div", "span",
     "pre", "code", "table", "thead", "tbody", "tr", "th", "td", "blockquote", "img",
     "strong", "em", "del", "br", "input", "button"}

ALLOWED_ATTR ==
    ADD_ATTR \cup {"href", "src", "alt", "type", "style", "disabled", "checked"}

URI_SAFE_ATTRIBUTES ==
    {"alt", "class", "for", "id", "label", "name", "pattern", "placeholder", "role",
     "summary", "title", "value", "style", "xmlns"}

DATA_URI_TAGS == {"image", "img", "video", "audio", "source", "track"}

AllowedSchemes ==
    {"http", "https", "ftp", "ftps", "mailto", "tel", "callto", "sms", "cid", "xmpp"}

RECURSIVE Without(_, _)
\* s without its characters of C
Without(s, C) ==
    IF Len(s) <= 1 THEN (IF s \in C THEN "" ELSE s)
    ELSE Without(FirstHalf(s), C) \o Without(SecondHalf(s), C)

\* DOMPurify's IS_ALLOWED_URI on a value without its white space: one of the
\* allowed schemes, a first character that is no letter, or letters, +, .
\* and - that no colon follows.
IsAllowedUri(value) ==
    LET v == Without(value, SpaceChars)
        j == RunEnd(v, 1, CharsOf(Uppercase) \cup CharsOf(Lowercase) \cup {"+", ".", "-"}, TRUE)
    IN  IF v = "" THEN FALSE
        ELSE IF CharAt(v, 1) \notin CharsOf(Uppercase) \cup CharsOf(Lowercase) THEN TRUE
        ELSE IF ~At(v, j, ":") THEN TRUE
        ELSE toLowerCase(SubSeq(v, 1, j - 1)) \in AllowedSchemes

\* DOMPurify's _isValidAttribute under the configuration of sanitize
IsValidAttribute(tag, name, value) ==
    IF name \in FORBID_ATTR THEN FALSE
    ELSE IF At(name, 1, "data-") \/ At(name, 1, "aria-") THEN TRUE
    ELSE IF name \notin ALLOWED_ATTR THEN FALSE
    ELSE IF name \in URI_SAFE_ATTRIBUTES THEN TRUE
    ELSE IF IsAllowedUri(value) THEN TRUE
    ELSE IF name \in {"src", "href"} /\ At(value, 1, "data:") /\ tag \in DATA_URI_TAGS THEN TRUE
    ELSE value = ""

\* The attributes of a tag as records, from position p of the tag.
RECURSIVE Attributes(_, _)
Attributes(tag, p) ==
    LET a == RunEnd(tag, p, SpaceChars, TRUE) IN
    IF a > Len(tag) THEN <<>>
    ELSE IF At(tag, a, ">") THEN <<>>
    ELSE LET b == RunEnd(tag, a, SpaceChars \cup {"=", ">"}, FALSE)
             quoted == At(tag, b, "=\"")
             c == IF quoted THEN RunEnd(tag, b + 2, {"\""}, FALSE) ELSE b
         IN  IF b = a THEN Attributes(tag, a + 1)
             ELSE <<[name |-> toLowerCase(SubSeq(tag, a, b - 1)),
                     value |-> IF quoted THEN SubSeq(tag, b + 2, c - 1) ELSE ""]>>
                  \o Attributes(tag, IF quoted THEN c + 1 ELSE b)

\* the name of a tag <name ...> or </name>
TagName(tag) ==
    LET a == IF At(tag, 2, "/") THEN 3 ELSE 2 IN
    toLowerCase(SubSeq(tag, a, RunEnd(tag, a, WordChars \cup {"-"}, TRUE) - 1))

RECURSIVE WriteAttributes(_, _, _)
WriteAttributes(name, attrs, k) ==
    IF k > Len(attrs) THEN ""
    ELSE (IF IsValidAttribute(name, attrs[k].name, attrs[k].value)
          THEN " " \o attrs[k].name \o "=\"" \o attrs[k].value \o "\"" ELSE "")
         \o WriteAttributes(name, attrs, k + 1)

\* What DOMPurify leaves of one tag: nothing of a tag that is forbidden or
\* not allowed (its content is kept), the valid attributes of another.
PurifyTag(tag) ==
    LET name == TagName(tag) IN
    IF name \in FORBID_TAGS \/ name \notin ALLOWED_TAGS THEN ""
    ELSE IF At(tag, 2, "/") THEN "</" \o name \o ">"
    ELSE "<" \o name
         \o WriteAttributes(name, Attributes(tag, 2 + Len(name)), 1) \o ">"

\* the first position from i where the character c stands, Len(s) + 1 for none
NextChar(s, i, c) == RunEnd(s, i, {c}, FALSE)

RECURSIVE WriteText(_, _)
\* the text of a text node as innerHTML writes it: the quotes that
\* escapeHtml wrote as entities are written as characters
WriteText(s, i) ==
    IF i > Len(s) THEN ""
    ELSE IF At(s, i, "&quot;") THEN "\"" \o WriteText(s, i + 6)
    ELSE IF At(s, i, "&#39;") THEN "'" \o WriteText(s, i + 5)
    ELSE LET j == NextChar(s, i + 1, "&") IN SubSeq(s, i, j - 1) \o WriteText(s, j)

RECURSIVE DOMPurifySanitize(_)
\* DOMPurify.sanitize with the configuration of sanitize, on the markup of
\* parseBlocks: every < of that markup opens a tag of the parser, since
\* escapeHtml leaves no <, > or " of the input.  The tags are filtered one
\* by one and the text between them is kept.
DOMPurifySanitize(h) ==
    IF h = "" THEN ""
    ELSE IF At(h, 1, "<") THEN
        LET e == NextChar(h, 1, ">") IN
        IF e > Len(h) THEN WriteText(h, 1)
        ELSE PurifyTag(SubSeq(h, 1, e)) \o DOMPurifySanitize(From(h, e + 1))
    ELSE LET e == NextChar(h, 1, "<") IN
         WriteText(SubSeq(h, 1, e - 1), 1) \o DOMPurifySanitize(From(h, e))

\* ---- parse, as the steps of one call ----
MAX_SIZE == 10 * 1024 * 1024

MaxChunks == 2

\* The pieces of the inputs.
Fragments ==
    { "JavaScript:", "onerror=", "<script>", "[a](javascript:b)",
      "\n", "# ", "> ", "- ", Fence }

RECURSIVE Concat(_)
Concat(chunks) == IF chunks = <<>> THEN "" ELSE Head(chunks) \o Concat(Tail(chunks))

ParserInputs == { Concat(chunks) : chunks \in SeqsUpTo(Fragments, MaxChunks) }

\* let html = this.parseBlocks(markdown), where parseBlocks gave out
Parsed(out) == html' = out.html /\ parser' = out.this

\* parse up to the call of sanitize
ParseCall ==
    /\ parserPc = "call"
    /\ IF markdown = "" THEN
            /\ html' = ""
            /\ parserPc' = "done"
            /\ UNCHANGED <<markdown, parser>>
       ELSE IF Len(markdown) > MAX_SIZE THEN
            /\ html' = "<div class=\"error\">Document exceeds maximum size (10MB)</div>"
            /\ parserPc' = "done"
            /\ UNCHANGED <<markdown, parser>>
       ELSE /\ markdown' = replace(replace(markdown, "crlf"), "cr")
            /\ Parsed(parseBlocks(parser, markdown'))
            /\ parserPc' = "sanitize"
    /\ UNCHANGED <<sanitizer, returned, notParser>>

\* sanitize where typeof DOMPurify !== 'undefined', and the return of parse
SanitizeWithDOMPurify ==
    /\ parserPc = "sanitize"
    /\ html' = DOMPurifySanitize(html)
    /\ sanitizer' = "DOMPurify"
    /\ parserPc' = "done"
    /\ UNCHANGED <<markdown, parser, returned, notParser>>

\* sanitize where DOMPurify is undefined, and the return of parse
SanitizeWithFallback ==
    /\ parserPc = "sanitize"
    /\ html' = fallbackSanitize(html)
    /\ sanitizer' = "fallback"
    /\ parserPc' = "done"
    /\ UNCHANGED <<markdown, parser, returned, notParser>>

ParserNext ==
    \/ ParseCall
    \/ SanitizeWithDOMPurify
    \/ SanitizeWithFallback

\* ---- parseInline on a text run ----
MaxInlineChunks == 3

\* The characters that escapeHtml maps, the marks of math and a letter.
InlineFragments == { "&", "<", ">", "\"", "'", "$", "$$", "a" }

InlineInputs == { Concat(chunks) : chunks \in SeqsUpTo(InlineFragments, MaxInlineChunks) }

\* a call of parseInline(markdown) and its return
ParseInlineCall ==
    /\ parserPc = "inline"
    /\ html' = parseInline(markdown)
    /\ parserPc' = "done"
    /\ UNCHANGED <<markdown, parser, sanitizer, returned, notParser>>

InlineNext == ParseInlineCall

\* ---- parseBlocks on the lines of a document ----
MaxLines == 4

\* The content of line k (counted from 1): a capital letter, which the
\* markup of the parser does not hold, except in Copy.
Marker(k) == CharAt("XYZWVUTSRQ", k)

\* A line of each kind with the content m: a paragraph line, a table row, a
\* blockquote line, a list item, a fence, a blank line and a blockquote
\* line with empty content.
LineKinds(m) == { m, "|" \o m \o "|", "> " \o m, "- " \o m, Fence, "", ">" }

RECURSIVE LinesOf(_)
\* the documents of n lines
LinesOf(n) ==
    IF n = 0 THEN { <<>> }
    ELSE { Append(lines, l) : lines \in LinesOf(n - 1), l \in LineKinds(Marker(n)) }

RECURSIVE TextOf(_)
\* lines.join('\n')
TextOf(lines) ==
    IF Len(lines) = 1 THEN lines[1]
    ELSE TextOf(SubSeq(lines, 1, Len(lines) - 1)) \o "\n" \o lines[Len(lines)]

BlockInputs == { TextOf(lines) : lines \in UNION { LinesOf(n) : n \in 1..MaxLines } }

\* a call of parseBlocks(markdown) on a new Parser and its return
ParseBlocksCall ==
    /\ parserPc = "blocks"
    /\ Parsed(parseBlocks(parser, markdown))
    /\ parserPc' = "done"
    /\ UNCHANGED <<markdown, sanitizer, returned, notParser>>

BlocksNext == ParseBlocksCall

\* ---- calls of parse, one after the other, on one Parser ----
MaxParses == 3

\* a fenced block of the language mermaid
MermaidBlock == Fence \o "mermaid\nX\n" \o Fence

RepeatInputs == { "", "X", MermaidBlock, "> " \o Fence \o "mermaid\n> X\n> " \o Fence }

\* parse up to the call of sanitize: the html and the fields this
parseToSanitize(this, s) ==
    IF s = "" THEN [html |-> "", this |-> this]
    ELSE IF Len(s) > MAX_SIZE
    THEN [html |-> "<div class=\"error\">Document exceeds maximum size (10MB)</div>",
          this |-> this]
    ELSE parseBlocks(this, replace(replace(s, "crlf"), "cr"))

\* what parse returns of the html that parseToSanitize gave
parseReturn(s, h, mode) ==
    IF s = "" THEN ""
    ELSE IF Len(s) > MAX_SIZE THEN h
    ELSE IF mode = "DOMPurify" THEN DOMPurifySanitize(h)
    ELSE fallbackSanitize(h)

\* one whole call parse(s) on the Parser, on a page where sanitize runs mode
ParseAgain(s, mode, out) ==
    /\ parserPc = "idle"
    /\ Len(returned) < MaxParses
    /\ sanitizer \in {"none", mode}
    /\ sanitizer' = mode
    /\ markdown' = s
    /\ parser' = out.this
    /\ html' = parseReturn(s, out.html, mode)
    /\ returned' = Append(returned, [input |-> s, output |-> html'])
    /\ UNCHANGED <<parserPc, notParser>>

ParseAgainWithDOMPurify ==
    \E s \in RepeatInputs : ParseAgain(s, "DOMPurify", parseToSanitize(parser, s))

ParseAgainWithFallback ==
    \E s \in RepeatInputs : ParseAgain(s, "fallback", parseToSanitize(parser, s))

RepeatNext ==
    \/ ParseAgainWithDOMPurify
    \/ ParseAgainWithFallback

(***************************************************************************)
(* Service worker (sw.js)                                                  *)
(* A response is its url and status; the cache maps a request url to the   *)
(* response stored for it.                                                 *)
(***************************************************************************)
Origin == "https://example.com"

\* The directories the editor may be served from: the root of the origin, or
\* a directory below it (tests/offline-sw.test.js line 32).
Scopes == {"/", "/markdown-editor/"}

startsWith(s, prefix) == Len(s) >= Len(prefix) /\ SubSeq(s, 1, Len(prefix)) = prefix

\* The url a string names in the worker: an absolute url is itself, a path
\* starting with "/" is taken from the root of the origin, anything else from
\* the directory of self.location.
resolve(url) ==
    IF startsWith(url, "http") THEN url
    ELSE IF startsWith(url, "/") THEN Origin \o url
    ELSE IF startsWith(url, "./") THEN Origin \o swScope \o SubSeq(url, 3, Len(url))
    ELSE Origin \o swScope \o url

\* ASSETS_TO_CACHE (lines 7-34): its first entries; the others are files
\* named the same way.
ASSETS_TO_CACHE == {"/", "/index.html", "/css/main.css"}

\* CDN_ASSETS (lines 37-44): one of them.
CDN_ASSETS == {"https://cdnjs.cloudflare.com/ajax/libs/dompurify/3.0.6/purify.min.js"}

\* The index page of the editor, in the directory the worker is served from.
AppIndex == Origin \o swScope \o "index.html"

\* A page of the editor that is no file of it (tests/offline-sw.test.js line 62).
AppPage == Origin \o swScope \o "docs/page"

NewResponse(url, status) == [url |-> url, status |-> status]

\* Response.ok
ok(response) == response.status \in 200..299

\* cache.put(request, response)
cachePut(c, url, response) ==
    {e \in c : e.url # url} \cup {[url |-> url, response |-> response]}

\* caches.match(request): the response stored for the url, or undefined.
cachesMatch(url) ==
    IF \E e \in cache : e.url = url
    THEN (CHOOSE e \in cache : e.url = url).response
    ELSE Undefined

RECURSIVE PutAll(_, _, _)
PutAll(c, urls, status) ==
    IF urls = {} THEN c
    ELSE LET u == CHOOSE x \in urls : TRUE
         IN  PutAll(cachePut(c, resolve(u), NewResponse(resolve(u), status)),
                    urls \ {u}, status)

\* The install handler (lines 47-71).  cache.addAll stores every asset or,
\* if one of them cannot be fetched with an ok status, none, and its failure
\* is caught (lines 52-54); a CDN asset is stored with whatever status it was
\* answered with, or not at all if its fetch fails (lines 57-63).
Install(local, cdn) ==
    /\ swState = "parsed"
    /\ swState' = "installed"
    /\ cache' = LET c == IF local THEN PutAll(cache, ASSETS_TO_CACHE, 200) ELSE cache
                IN  IF cdn = "ok" THEN PutAll(c, CDN_ASSETS, 200)
                    ELSE IF cdn = "notOk" THEN PutAll(c, CDN_ASSETS, 404)
                    ELSE c
    /\ UNCHANGED <<swScope, events>>
    /\ UNCHANGED notSw

\* The activate handler (lines 74-90): the caches of other names are deleted;
\* the cache CACHE_NAME stays.
Activate ==
    /\ swState = "installed"
    /\ swState' = "activated"
    /\ UNCHANGED <<swScope, cache, events>>
    /\ UNCHANGED notSw

MaxFetches == 2

Requests ==
    [method : {"GET", "POST"},
     url : {AppIndex, AppPage, "chrome-extension://abcdef/page.html"},
     mode : {"navigate", "cors"}]

\* The fetch handler up to respondWith (lines 93-100): a request that is not
\* a GET or not http(s) is left to the browser.
FetchEvent(request) ==
    /\ swState = "activated"
    /\ Len(events) < MaxFetches
    /\ events' = Append(events,
            [request |-> request,
             pc |-> IF request.method # "GET" THEN "default"
                    ELSE IF ~startsWith(request.url, "http") THEN "default"
                    ELSE "match",
             response |-> Undefined, hit |-> FALSE, failed |-> FALSE,
             indexCached |-> FALSE])
    /\ UNCHANGED <<swScope, swState, cache>>
    /\ UNCHANGED notSw

\* caches.match(event.request) has resolved (lines 101-119): the cached
\* response is returned and a fetch started in the background, or the
\* request goes to the network.
CacheMatched(e) ==
    /\ events[e].pc = "match"
    /\ LET cachedResponse == cachesMatch(events[e].request.url) IN
       events' = IF cachedResponse # Undefined
                 THEN [events EXCEPT ![e].pc = "revalidate", ![e].hit = TRUE,
                                     ![e].response = cachedResponse]
                 ELSE [events EXCEPT ![e].pc = "fetch"]
    /\ UNCHANGED <<swScope, swState, cache>>
    /\ UNCHANGED notSw

\* The background fetch of a cached request settles (lines 104-114).
Revalidated(e, outcome) ==
    /\ events[e].pc = "revalidate"
    /\ events' = [events EXCEPT ![e].pc = "done"]
    /\ cache' = IF outcome = "ok"
                THEN cachePut(cache, events[e].request.url,
                              NewResponse(events[e].request.url, 200))
                ELSE cache
    /\ UNCHANGED <<swScope, swState>>
    /\ UNCHANGED notSw

\* fetch(event.request) resolves (lines 119-129): an ok response is put in
\* the cache; the response is returned.
NetworkResponds(e, status) ==
    /\ events[e].pc = "fetch"
    /\ LET response == NewResponse(events[e].request.url, status) IN
       /\ events' = [events EXCEPT ![e].pc = "done", ![e].response = response]
       /\ cache' = IF ok(response) THEN cachePut(cache, events[e].request.url, response)
                   ELSE cache
    /\ UNCHANGED <<swScope, swState>>
    /\ UNCHANGED notSw

\* The url of the offline fallback (line 133).
OfflineFallback == "/index.html"

\* The response made when offline (lines 135-139).
Offline503 == NewResponse("", 503)

\* fetch(event.request) rejects (lines 130-140): a navigation gets what
\* caches.match('/index.html') resolves to, anything else the 503 response.
\* indexCached records whether the index page of the editor is in the cache.
NetworkFails(e) ==
    /\ events[e].pc = "fetch"
    /\ events' = [events EXCEPT
            ![e].pc = "done",
            ![e].failed = TRUE,
            ![e].indexCached = (cachesMatch(AppIndex) # Undefined),
            ![e].response = IF events[e].request.mode = "navigate"
                            THEN cachesMatch(resolve(OfflineFallback))
                            ELSE Offline503]
    /\ UNCHANGED <<swScope, swState, cache>>
    /\ UNCHANGED notSw

SwNext ==
    \/ \E local \in BOOLEAN, cdn \in {"ok", "notOk", "failed"} : Install(local, cdn)
    \/ Activate
    \/ \E request \in Requests : FetchEvent(request)
    \/ \E e \in 1..Len(events) : CacheMatched(e)
    \/ \E e \in 1..Len(events), outcome \in {"ok", "notOk", "failed"} : Revalidated(e, outcome)
    \/ \E e \in 1..Len(events), status \in {200, 404} : NetworkResponds(e, status)
    \/ \E e \in 1..Len(events) : NetworkFails(e)

(***************************************************************************)
(* Editor (js/modules/editor.js)                                           *)
(* An entry of the undo or redo stack is the content it holds; the         *)
(* selection it carries plays no part here.                                *)
(***************************************************************************)
maxUndoSize == 100

EditorTexts == {"", "a", "ab", "read-only load error"}

NewEditor ==
    [value |-> "", lastContent |-> "", isComposing |-> FALSE,
     undoStack |-> <<>>, redoStack |-> <<>>]

\* pushUndo without the shift of lines 562-564
pushUndoUnbounded(stack, content) == Append(stack, content)

\* pushUndo (lines 555-565): the oldest entry goes when the stack is full.
pushUndo(stack, content) ==
    IF Len(stack) + 1 > maxUndoSize THEN Tail(Append(stack, content))
    ELSE Append(stack, content)

\* handleInput (lines 86-105) on the editor ed: the editor after it, and
\* the contents given to the onChange callback.
handleInput(ed) ==
    IF ed.isComposing THEN [editor |-> ed, changes |-> <<>>]
    ELSE [editor |-> IF ed.value # ed.lastContent
                     THEN [ed EXCEPT !.undoStack = pushUndo(ed.undoStack, ed.lastContent),
                                     !.lastContent = ed.value,
                                     !.redoStack = <<>>]
                     ELSE ed,
          changes |-> <<ed.value>>]

MaxEditorCalls == 4

\* An entry of editorLog: the call, the content after it, and whether a
\* composition was going on after it.
Logged(name, ed) == [name |-> name, value |-> ed.value, composing |-> ed.isComposing]

\* One call on the Editor: ed and changes are what it leaves.
EditorDoes(name, content, silent, out) ==
    /\ editorCalls < MaxEditorCalls
    /\ editorCalls' = editorCalls + 1
    /\ editor' = out.editor
    /\ changeEvents' = changeEvents \o out.changes
    /\ editorCall' = [name |-> name, content |-> content, silent |-> silent,
                      changesBefore |-> Len(changeEvents)]
    /\ editorLog' = Append(editorLog, Logged(name, out.editor))
    /\ UNCHANGED notEditor

\* The user changes the text: the input event (line 59).
Input(content) ==
    EditorDoes("input", content, FALSE, handleInput([editor EXCEPT !.value = content]))

\* compositionstart (line 64).
CompositionStart ==
    EditorDoes("compositionstart", "", FALSE,
               [editor |-> [editor EXCEPT !.isComposing = TRUE], changes |-> <<>>])

\* compositionend (lines 65-68).
CompositionEnd ==
    EditorDoes("compositionend", "", FALSE, handleInput([editor EXCEPT !.isComposing = FALSE]))

\* undo (lines 570-587).
undo ==
    /\ editor.undoStack # <<>>
    /\ EditorDoes("undo", "", FALSE,
            LET state == editor.undoStack[Len(editor.undoStack)] IN
            handleInput([editor EXCEPT
                !.undoStack = SubSeq(editor.undoStack, 1, Len(editor.undoStack) - 1),
                !.redoStack = Append(editor.redoStack, editor.value),
                !.value = state,
                !.lastContent = state]))

\* redo (lines 592-609).
redo ==
    /\ editor.redoStack # <<>>
    /\ EditorDoes("redo", "", FALSE,
            LET state == editor.redoStack[Len(editor.redoStack)] IN
            handleInput([editor EXCEPT
                !.redoStack = SubSeq(editor.redoStack, 1, Len(editor.redoStack) - 1),
                !.undoStack = Append(editor.undoStack, editor.value),
                !.value = state,
                !.lastContent = state]))

\* setContent with both stacks kept (a variant of setContent).
setContentKeepsStacks(ed, content, silent) ==
    [editor |-> [ed EXCEPT !.value = content, !.lastContent = content],
     changes |-> IF ~silent THEN <<content>> ELSE <<>>]

\* setContent (lines 621-632) on the editor ed.
setContent(ed, content, silent) ==
    [editor |-> [ed EXCEPT !.value = content, !.lastContent = content,
                           !.undoStack = <<>>, !.redoStack = <<>>],
     changes |-> IF ~silent THEN <<content>> ELSE <<>>]

SetContentCall(content, silent) ==
    EditorDoes("setContent", content, silent, setContent(editor, content, silent))

EditorNext ==
    \/ \E content \in EditorTexts : Input(content)
    \/ CompositionStart
    \/ CompositionEnd
    \/ undo
    \/ redo
    \/ \E content \in EditorTexts, silent \in BOOLEAN : SetContentCall(content, silent)

(***************************************************************************)
(* Scroll synchronisation (js/app.js setupScrollSync, performance.js       *)
(* throttle)                                                               *)
(***************************************************************************)
lockDelay == 100

throttleLimit == 16

SyncStep == 25

MaxSyncTime == 150

MaxScrolls == 3

Panes == {"editor", "preview"}

OtherPane(pane) == IF pane = "editor" THEN "preview" ELSE "editor"

NewSync ==
    [scrolling |-> [pane \in Panes |-> FALSE], inThrottle |-> [pane \in Panes |-> FALSE]]

\* A timer that is due: the browser runs it before it dispatches anything
\* that happens later.
TimerDue == \E t \in 1..Len(syncTimers) : ~syncTimers[t].fired /\ syncTimers[t].due <= syncTime

\* The listener of the pane's scroll event (app.js lines 657-680 inside
\* throttle, performance.js lines 38-44).  While inThrottle it does nothing.
\* Else the function runs: if the other pane's flag is set it returns, else
\* it sets its own flag, writes the other pane's scroll position and sets
\* the timer that clears the flag; then inThrottle is set, with its timer.
Scroll(pane) ==
    /\ scrolls < MaxScrolls
    /\ ~TimerDue
    /\ scrolls' = scrolls + 1
    /\ IF sync.inThrottle[pane] THEN UNCHANGED <<sync, syncTimers, syncLog>>
       ELSE IF sync.scrolling[OtherPane(pane)]
       THEN /\ sync' = [sync EXCEPT !.inThrottle[pane] = TRUE]
            /\ syncTimers' = Append(syncTimers,
                    [clears |-> "inThrottle", pane |-> pane,
                     due |-> syncTime + throttleLimit, fired |-> FALSE])
            /\ UNCHANGED syncLog
       ELSE /\ sync' = [sync EXCEPT !.scrolling[pane] = TRUE, !.inThrottle[pane] = TRUE]
            /\ syncLog' = Append(syncLog, [pane |-> pane, at |-> syncTime])
            /\ syncTimers' = syncTimers \o
                    << [clears |-> "scrolling", pane |-> pane,
                        due |-> syncTime + lockDelay, fired |-> FALSE],
                       [clears |-> "inThrottle", pane |-> pane,
                        due |-> syncTime + throttleLimit, fired |-> FALSE] >>
    /\ UNCHANGED syncTime
    /\ UNCHANGED notScroll

\* A timer fires (app.js lines 665 and 676, performance.js line 43): the
\* flag it was made for is cleared.  Timers fire in the order they are due.
SyncTimerFires(t) ==
    /\ ~syncTimers[t].fired
    /\ syncTimers[t].due <= syncTime
    /\ \A u \in 1..Len(syncTimers) :
          ~syncTimers[u].fired => syncTimers[t].due <= syncTimers[u].due
    /\ syncTimers' = [syncTimers EXCEPT ![t].fired = TRUE]
    /\ sync' = IF syncTimers[t].clears = "scrolling"
               THEN [sync EXCEPT !.scrolling[syncTimers[t].pane] = FALSE]
               ELSE [sync EXCEPT !.inThrottle[syncTimers[t].pane] = FALSE]
    /\ UNCHANGED <<syncTime, syncLog, scrolls>>
    /\ UNCHANGED notScroll

SyncTimePasses ==
    /\ syncTime + SyncStep <= MaxSyncTime
    /\ ~TimerDue
    /\ syncTime' = syncTime + SyncStep
    /\ UNCHANGED <<sync, syncTimers, syncLog, scrolls>>
    /\ UNCHANGED notScroll

ScrollNext ==
    \/ \E pane \in Panes : Scroll(pane)
    \/ \E t \in 1..Len(syncTimers) : SyncTimerFires(t)
    \/ SyncTimePasses

(***************************************************************************)
(* App (js/app.js): tab activation with lazy loading, the editor change    *)
(* callback, saving, the auto-snapshot timer and the renaming of a tab.    *)
(* A content is the document it was written for and a revision; storage    *)
(* operations run one at a time in the order they were enqueued            *)
(* (storage.js lines 99-107).                                              *)
(***************************************************************************)
AppDocs == {"doc-1", "doc-2"}

NoTab == ""

NewContent(of, rev) == [of |-> of, rev |-> rev]

\* tab.content of a tab whose content has not been loaded (tabs.js line 64).
NullContent == NewContent("null", 0)

\* What the editor holds before any tab is shown.
EmptyContent == NewContent("", 0)

\* The text shown when the content cannot be loaded (app.js lines 798, 805).
ErrorPlaceholder == NewContent("error", 0)

MaxAppSteps == 4

\* handleEditorChange (lines 749-770): the content is copied into the active
\* tab, which is marked as unsaved.
handleEditorChange(tabsNow, active, content) ==
    IF active = NoTab THEN tabsNow
    ELSE [tabsNow EXCEPT ![active].content = content, ![active].unsaved = TRUE]

\* handleTabChange from "Set editor content" on (lines 812-817), for a tab
\* whose content is known: setContent calls the change callback (editor.js
\* lines 629-631), and startAutoSnapshot is called with no options, so with
\* encrypt = false.
ShowTab(tabsNow, active, id) ==
    /\ appEditor' = [value |-> tabsNow[id].content, readOnly |-> FALSE]
    /\ appTabs' = handleEditorChange(tabsNow, active, tabsNow[id].content)
    /\ appTimers' = {[documentId |-> id, encrypt |-> FALSE]}

\* The load failure branches of handleTabChange (lines 795-808): setContent
\* is called without silent, so the change callback runs.
ShowError(active) ==
    /\ appEditor' = [value |-> ErrorPlaceholder, readOnly |-> TRUE]
    /\ appTabs' = handleEditorChange(appTabs, active, ErrorPlaceholder)
    /\ UNCHANGED appTimers

UserActs ==
    /\ appSteps < MaxAppSteps
    /\ appSteps' = appSteps + 1

\* Tabs.activateTab (tabs.js lines 137-155) and handleTabChange up to its
\* await (app.js lines 785-790, 809-817).
ActivateTab(id) ==
    /\ UserActs
    /\ activeTab' = id
    /\ IF appTabs[id].content = NullContent
       THEN /\ queue' = Append(queue, [kind |-> "getDocument", id |-> id, by |-> "load",
                                       doc |-> NullContent])
            /\ UNCHANGED <<appTabs, appEditor, appTimers>>
       ELSE /\ ShowTab(appTabs, id, id)
            /\ UNCHANGED queue
    /\ UNCHANGED <<appDocuments, snapshotsMade, lastSave, crypto>>
    /\ UNCHANGED notApp

\* The user types (editor.js handleInput): not while the editor is read-only.
Types ==
    /\ UserActs
    /\ ~appEditor.readOnly
    /\ LET content == NewContent(appEditor.value.of, appEditor.value.rev + 1) IN
       /\ appEditor' = [appEditor EXCEPT !.value = content]
       /\ appTabs' = handleEditorChange(appTabs, activeTab, content)
    /\ UNCHANGED <<activeTab, appDocuments, queue, appTimers, snapshotsMade, lastSave, crypto>>
    /\ UNCHANGED notApp

\* saveCurrentDocument (lines 900-934) up to storage.saveDocument, called by
\* the auto-save interval (lines 735-743) or by the user.
SaveCurrentDocument ==
    /\ UserActs
    /\ activeTab # NoTab
    /\ queue' = Append(queue,
            [kind |-> "saveDocument", id |-> activeTab, by |-> "save",
             doc |-> [content |-> appEditor.value, title |-> appTabs[activeTab].title,
                      encrypted |-> crypto.encryptionEnabled /\ crypto.isUnlocked]])
    /\ UNCHANGED <<appTabs, activeTab, appEditor, appDocuments, appTimers, snapshotsMade, lastSave,
                   crypto>>
    /\ UNCHANGED notApp

\* A tick of the auto-snapshot interval (history.js lines 35-44) and
\* createSnapshot up to storage.saveSnapshot (lines 78-98).
AutoSnapshotTick(t) ==
    /\ UserActs
    /\ t \in appTimers
    /\ appEditor.value # EmptyContent
    /\ queue' = Append(queue,
            [kind |-> "saveSnapshot", id |-> t.documentId, by |-> "timer",
             doc |-> [content |-> appEditor.value,
                      encrypted |-> t.encrypt /\ crypto.isUnlocked,
                      unlocked |-> crypto.isUnlocked]])
    /\ UNCHANGED <<appTabs, activeTab, appEditor, appDocuments, appTimers, snapshotsMade, lastSave,
                   crypto>>
    /\ UNCHANGED notApp

RenamedTitle == "renamed"

\* finishRename (tabs.js lines 323-337) up to storage.getDocument.
FinishRename(id) ==
    /\ UserActs
    /\ appTabs[id].title # RenamedTitle
    /\ appTabs' = [appTabs EXCEPT ![id].title = RenamedTitle]
    /\ queue' = Append(queue, [kind |-> "getDocument", id |-> id, by |-> "rename",
                               doc |-> NullContent])
    /\ UNCHANGED <<activeTab, appEditor, appDocuments, appTimers, snapshotsMade, lastSave, crypto>>
    /\ UNCHANGED notApp

\* storage.getDocument of a handleTabChange runs (app.js lines 789-817).
LoadRuns(fails) ==
    /\ queue # <<>>
    /\ Head(queue).kind = "getDocument" /\ Head(queue).by = "load"
    /\ queue' = Tail(queue)
    /\ LET id == Head(queue).id IN
       IF fails \/ ~appDocuments[id].present THEN ShowError(activeTab)
       ELSE ShowTab([appTabs EXCEPT ![id].content = appDocuments[id].content], activeTab, id)
    /\ UNCHANGED <<activeTab, appDocuments, snapshotsMade, lastSave, crypto, appSteps>>
    /\ UNCHANGED notApp

\* storage.getDocument of a finishRename runs (tabs.js lines 331-335): the
\* record fetched is saved again with the new title.
RenameFetches(fails) ==
    /\ queue # <<>>
    /\ Head(queue).kind = "getDocument" /\ Head(queue).by = "rename"
    /\ LET id == Head(queue).id IN
       queue' = IF fails \/ ~appDocuments[id].present THEN Tail(queue)
                ELSE Append(Tail(queue),
                        [kind |-> "saveDocument", id |-> id, by |-> "rename",
                         doc |-> [content |-> appDocuments[id].content, title |-> RenamedTitle,
                                  encrypted |-> appDocuments[id].encrypted]])
    /\ UNCHANGED <<appTabs, activeTab, appEditor, appDocuments, appTimers, snapshotsMade, lastSave,
                   crypto, appSteps>>
    /\ UNCHANGED notApp

\* storage.saveDocument runs (storage.js lines 148-176); after the one of
\* saveCurrentDocument the tab is marked as saved (app.js line 926).
SaveRuns(fails) ==
    /\ queue # <<>>
    /\ Head(queue).kind = "saveDocument"
    /\ queue' = Tail(queue)
    /\ LET op == Head(queue) IN
       IF fails THEN UNCHANGED <<appDocuments, appTabs, lastSave>>
       ELSE /\ appDocuments' = [appDocuments EXCEPT ![op.id] =
                            [present |-> TRUE, content |-> op.doc.content,
                             title |-> op.doc.title, encrypted |-> op.doc.encrypted]]
            /\ appTabs' = IF op.by = "save" THEN [appTabs EXCEPT ![op.id].unsaved = FALSE]
                          ELSE appTabs
            /\ lastSave' = IF op.by = "save" THEN [lastSave EXCEPT ![op.id] = op.doc.content]
                           ELSE lastSave
    /\ UNCHANGED <<activeTab, appEditor, appTimers, snapshotsMade, crypto, appSteps>>
    /\ UNCHANGED notApp

\* storage.saveSnapshot runs.
SnapshotRuns ==
    /\ queue # <<>>
    /\ Head(queue).kind = "saveSnapshot"
    /\ queue' = Tail(queue)
    /\ snapshotsMade' = Append(snapshotsMade,
            [documentId |-> Head(queue).id, content |-> Head(queue).doc.content,
             encrypted |-> Head(queue).doc.encrypted, unlocked |-> Head(queue).doc.unlocked,
             ofEncrypted |-> appTabs[Head(queue).id].encrypted])
    /\ UNCHANGED <<appTabs, activeTab, appEditor, appDocuments, appTimers, lastSave, crypto, appSteps>>
    /\ UNCHANGED notApp

AppNext ==
    \/ \E id \in AppDocs : ActivateTab(id)
    \/ Types
    \/ SaveCurrentDocument
    \/ \E t \in appTimers : AutoSnapshotTick(t)
    \/ \E id \in AppDocs : FinishRename(id)
    \/ \E fails \in BOOLEAN : LoadRuns(fails)
    \/ \E fails \in BOOLEAN : RenameFetches(fails)
    \/ \E fails \in BOOLEAN : SaveRuns(fails)
    \/ SnapshotRuns

(***************************************************************************)
(* Diff.buildDiffFromLCS (diff.js lines 68-90) called with any matrix.     *)
(* The matrix has its first `rows` rows; an entry gets its value when the  *)
(* loop reads it for the first time, so every matrix is covered.           *)
(***************************************************************************)
MaxBuildLines == 2

BuildLines == SeqsUpTo({"a", "b"}, MaxBuildLines)

\* An entry the matrix does not hold: undefined, for which >= is false.
NoEntry == 0 - 1

MatrixEntries == {0, 1, NoEntry}

\* a >= b in JavaScript for numbers and undefined
GreaterOrEqual(a, b) == a # NoEntry /\ b # NoEntry /\ a >= b

BuildStart(oldL, newL, rows) ==
    build = [oldLines |-> oldL, newLines |-> newL, rows |-> rows, entries |-> <<>>,
             i |-> Len(oldL), j |-> Len(newL), operations |-> <<>>, iterations |-> 0,
             pc |-> "loop"]

\* lcs[i][j]: the value read before, or the value v the matrix holds there.
Entry(b, i, j, v) == IF <<i, j>> \in DOMAIN b.entries THEN b.entries[<<i, j>>] ELSE v

Read(b, i, j, v) ==
    IF <<i, j>> \in DOMAIN b.entries THEN b.entries
    ELSE [c \in DOMAIN b.entries \cup {<<i, j>>} |->
            IF c = <<i, j>> THEN v ELSE b.entries[c]]

\* the condition of line 76
LinesEqual(b) == b.i > 0 /\ b.j > 0 /\ b.oldLines[b.i] = b.newLines[b.j]

\* line 80 without `i === 0 ||`
InsertsUnguarded(b, ge) == b.j > 0 /\ ge

\* the condition of line 80, ge being lcs[i][j - 1] >= lcs[i - 1][j]
Inserts(b, ge) == b.j > 0 /\ (b.i = 0 \/ ge)

\* line 80 reads the matrix when j > 0 and i is not 0; lcs[i] of a row the
\* matrix does not have is undefined, and reading its entry throws.
ReadsMatrix(b) == ~LinesEqual(b) /\ b.j > 0 /\ b.i # 0

\* One iteration of the while loop (lines 75-87); x and y are the values of
\* lcs[i][j - 1] and lcs[i - 1][j] when they are read for the first time.
BuildIteration(x, y) ==
    /\ build.pc = "loop"
    /\ build.i > 0 \/ build.j > 0
    /\ LET b == build
           after == IF ReadsMatrix(b)
                    THEN [b EXCEPT !.entries =
                            Read([b EXCEPT !.entries = Read(b, b.i, b.j - 1, x)],
                                 b.i - 1, b.j, y)]
                    ELSE b
           ge == IF ReadsMatrix(b)
                 THEN GreaterOrEqual(Entry(b, b.i, b.j - 1, x), Entry(after, b.i - 1, b.j, y))
                 ELSE FALSE
       IN  build' =
            IF ReadsMatrix(b) /\ b.i >= b.rows
            THEN [b EXCEPT !.pc = "threw"]
            ELSE IF LinesEqual(b)
            THEN [after EXCEPT
                    !.operations = <<[type |-> EQUAL, line |-> b.oldLines[b.i],
                                      oldLine |-> b.i, newLine |-> b.j]>> \o @,
                    !.i = @ - 1, !.j = @ - 1, !.iterations = @ + 1]
            ELSE IF Inserts(b, ge)
            THEN [after EXCEPT
                    !.operations = <<[type |-> INSERT, line |-> b.newLines[b.j],
                                      oldLine |-> 0, newLine |-> b.j]>> \o @,
                    !.j = @ - 1, !.iterations = @ + 1]
            ELSE IF b.i > 0
            THEN [after EXCEPT
                    !.operations = <<[type |-> DELETE, line |-> b.oldLines[b.i],
                                      oldLine |-> b.i, newLine |-> 0]>> \o @,
                    !.i = @ - 1, !.iterations = @ + 1]
            ELSE [after EXCEPT !.iterations = Min(@ + 1, Len(b.oldLines) + Len(b.newLines) + 1)]
    /\ UNCHANGED notBuild

\* The loop exits and buildDiffFromLCS returns operations (line 89).
BuildReturn ==
    /\ build.pc = "loop"
    /\ ~(build.i > 0 \/ build.j > 0)
    /\ build' = [build EXCEPT !.pc = "returned"]
    /\ UNCHANGED notBuild

BuildNext ==
    \/ \E x, y \in MatrixEntries : BuildIteration(x, y)
    \/ BuildReturn

\* ---- parseInline on a text run that holds formulas ----
MaxMathChunks == 3

\* The marks of math and texts that the later passes of parseInline match:
\* italic, bold, strikethrough, inline code, an emoji, a link.
MathFragments ==
    { "$", "$$", "a", "*a*", "**a**", "_a_", "~~a~~", Backquote \o "a" \o Backquote,
      ":x:", "[a](a)" }

MathInputs == { Concat(chunks) : chunks \in SeqsUpTo(MathFragments, MaxMathChunks) }

(***************************************************************************)
(* Search (js/modules/search.js): find and replace over the editor's       *)
(* textarea.  Positions are those of JavaScript, counted from 0.           *)
(***************************************************************************)
MaxContent == 2

ContentChars == {"a", "A", "("}

Contents == { Concat(cs) : cs \in SeqsUpTo(ContentChars, MaxContent) }

\* what the user types into the find input and into the replace input
SearchQueries == {"", "a", "aa", ".", "("}

Replacements == {"", "a", "(a"}

SearchOptions == [useRegex : BOOLEAN, caseSensitive : BOOLEAN, wholeWord : BOOLEAN]

\* the value new RegExp(pattern, flags) throws for a pattern it cannot compile
SyntaxError == [error |-> "SyntaxError"]

\* String.prototype.substring(from, to) with 0 <= from: both indices are
\* clamped to the length and swapped when from > to
Substring(s, from, to) ==
    LET a == Min(from, Len(s))
        b == Min(to, Len(s))
    IN  SubSeq(s, Min(a, b) + 1, IF a <= b THEN b ELSE a)

\* the atoms of the pattern: a query that is not a regular expression has
\* every special character escaped and is a run of literals; in a regular
\* expression . is any character and ( opens a group
Atom(c, useRegex) ==
    IF useRegex /\ c = "." THEN [kind |-> "any", c |-> c]
    ELSE IF useRegex /\ c = "(" THEN [kind |-> "group", c |-> c]
    ELSE [kind |-> "char", c |-> c]

Atoms(query, useRegex) == [k \in 1..Len(query) |-> Atom(CharAt(query, k), useRegex)]

\* createSearchRegex(query, options): a group that is never closed does not
\* compile, with or without the \b around it
createSearchRegex(query, options) ==
    LET atoms == Atoms(query, options.useRegex)
    IN  IF \E k \in 1..Len(atoms) : atoms[k].kind = "group" THEN SyntaxError
        ELSE [atoms |-> atoms, wholeWord |-> options.wholeWord,
              ignoreCase |-> ~options.caseSensitive]

\* \b at position p: a word character on one side only
WordAt(content, p) == p >= 0 /\ p < Len(content) /\ CharAt(content, p + 1) \in WordChars

Boundary(content, p) == WordAt(content, p - 1) # WordAt(content, p)

AtomMatches(atom, ignoreCase, c) ==
    IF atom.kind = "any" THEN c \notin LineTerminators
    ELSE IF ignoreCase THEN Lower(atom.c) = Lower(c)
    ELSE atom.c = c

\* the pattern matches the content at position p
MatchAt(regex, content, p) ==
    /\ p + Len(regex.atoms) <= Len(content)
    /\ \A k \in 1..Len(regex.atoms) :
            AtomMatches(regex.atoms[k], regex.ignoreCase, CharAt(content, p + k))
    /\ regex.wholeWord => Boundary(content, p) /\ Boundary(content, p + Len(regex.atoms))

RECURSIVE execAll(_, _, _)
\* the loop of performSearch: regex.exec(content) from lastIndex until it
\* returns null, an empty match moving lastIndex on by one
execAll(regex, content, lastIndex) ==
    LET found == { p \in lastIndex..Len(content) : MatchAt(regex, content, p) }
        p == Least(found)
        end == p + Len(regex.atoms)
    IN  IF found = {} THEN <<>>
        ELSE <<[start |-> p, end |-> end, text |-> Substring(content, p, end)]>>
                \o execAll(regex, content, IF end = p THEN end + 1 ELSE end)

\* updateMatchCount: the text of the match count element
updateMatchCount(s) ==
    [s EXCEPT !.matchCount =
        IF Len(s.matches) = 0 THEN "No results"
        ELSE ToString(s.currentMatchIndex + 1) \o " of " \o ToString(Len(s.matches))]

\* highlightCurrentMatch: the selection of the textarea afterwards
highlightCurrentMatch(s, t) ==
    IF s.currentMatchIndex < 0 \/ s.currentMatchIndex >= Len(s.matches) THEN t
    ELSE LET match == s.matches[s.currentMatchIndex + 1]
         IN  [t EXCEPT !.selection = <<Min(match.start, Len(t.value)), Min(match.end, Len(t.value))>>]

\* the catch block of performSearch, which keeps the old matches
CaughtKeepingMatches(s) == [s EXCEPT !.currentMatchIndex = 0 - 1, !.matchCount = "Invalid regex"]

\* the catch block of performSearch
Caught(s) ==
    [s EXCEPT !.matches = <<>>, !.currentMatchIndex = 0 - 1, !.matchCount = "Invalid regex"]

\* performSearch: the Search object afterwards
Searched(s, content) ==
    IF s.query = "" THEN updateMatchCount([s EXCEPT !.matches = <<>>, !.currentMatchIndex = 0 - 1])
    ELSE LET regex == createSearchRegex(s.query, s.options)
             found == execAll(regex, content, 0)
         IN  IF regex = SyntaxError THEN Caught(s)
             ELSE updateMatchCount([s EXCEPT !.matches = found,
                                             !.currentMatchIndex = IF Len(found) > 0 THEN 0 ELSE 0 - 1])

NotReplaced == [ranges |-> {}, edited |-> replaced.edited]

\* performSearch after the panel has taken the query and the options of s
SearchFor(s) ==
    LET done == Searched(s, textarea.value)
    IN  /\ search' = done
        /\ textarea' = highlightCurrentMatch(done, textarea)
        /\ replaced' = [ranges |-> {}, edited |-> FALSE]

\* the user types a query: handleFindInput calls performSearch
handleFindInput ==
    \E query \in SearchQueries \ {search.query} : SearchFor([search EXCEPT !.query = query])

\* the user ticks or unticks one of the three options: its change handler
\* calls performSearch
OptionChanges ==
    \E option \in {"useRegex", "caseSensitive", "wholeWord"} :
        SearchFor([search EXCEPT !.options[option] = ~search.options[option]])

\* findNext and findPrevious: a search when there are no matches, else a
\* step through them
findNext ==
    IF Len(search.matches) = 0 THEN SearchFor(search)
    ELSE LET s == updateMatchCount(
                    [search EXCEPT !.currentMatchIndex = (search.currentMatchIndex + 1) % Len(search.matches)])
         IN  /\ search' = s
             /\ textarea' = highlightCurrentMatch(s, textarea)
             /\ replaced' = NotReplaced

findPrevious ==
    IF Len(search.matches) = 0 THEN SearchFor(search)
    ELSE LET s == updateMatchCount(
                    [search EXCEPT !.currentMatchIndex =
                                        IF search.currentMatchIndex <= 0 THEN Len(search.matches) - 1
                                        ELSE search.currentMatchIndex - 1])
         IN  /\ search' = s
             /\ textarea' = highlightCurrentMatch(s, textarea)
             /\ replaced' = NotReplaced

\* close: clearHighlights empties the matches
closeSearch ==
    /\ search' = [search EXCEPT !.matches = <<>>, !.currentMatchIndex = 0 - 1]
    /\ replaced' = NotReplaced
    /\ UNCHANGED textarea

\* the user edits the text in the textarea: one character typed or deleted
\* at position p; the input event runs Editor.handleInput
UserEdits ==
    \E p \in 0..Len(textarea.value) :
        \E text \in { Substring(textarea.value, 0, p) \o c \o Substring(textarea.value, p, Len(textarea.value))
                        : c \in ContentChars }
                    \cup { Substring(textarea.value, 0, p) \o Substring(textarea.value, p + 1, Len(textarea.value)) } :
            /\ text # textarea.value
            /\ Len(text) <= MaxContent
            /\ textarea' = [value |-> text, selection |-> <<Min(p, Len(text)), Min(p, Len(text))>>,
                            lastContent |-> text]
            /\ UNCHANGED search
            /\ replaced' = [ranges |-> {}, edited |-> TRUE]

\* what one replacement does to the content: the range of the match gives
\* way to the replacement
Spliced(content, match, replacement) ==
    Substring(content, 0, match.start) \o replacement \o Substring(content, match.end, Len(content))

\* the range a replacement overwrites: the text standing there and the text
\* the match recorded
Range(content, match) ==
    [found |-> Substring(content, match.start, match.end), recorded |-> match.text]

Shifted(m, by) == [m EXCEPT !.start = m.start + by, !.end = m.end + by]

\* this.matches after replaceOne: the matches behind the current one are
\* moved by the difference of the lengths, the current one is removed
AfterSplice(matches, current, replacement) ==
    LET lengthDiff == Len(replacement) - Len(matches[current + 1].text)
    IN  [k \in 1..(Len(matches) - 1) |->
            IF k <= current THEN matches[k] ELSE Shifted(matches[k + 1], lengthDiff)]

replaceOne ==
    /\ ~(search.currentMatchIndex < 0 \/ Len(search.matches) = 0)
    /\ \E replacement \in Replacements :
        LET match == search.matches[search.currentMatchIndex + 1]
            newContent == Spliced(textarea.value, match, replacement)
            rest == AfterSplice(search.matches, search.currentMatchIndex, replacement)
            s == updateMatchCount(
                    [search EXCEPT !.matches = rest,
                                   !.currentMatchIndex =
                                        IF Len(rest) = 0 THEN 0 - 1
                                        ELSE IF search.currentMatchIndex >= Len(rest) THEN 0
                                        ELSE search.currentMatchIndex])
        IN  /\ Len(newContent) <= MaxContent
            /\ search' = s
            /\ textarea' = [highlightCurrentMatch(s, [textarea EXCEPT !.value = newContent])
                                EXCEPT !.lastContent = newContent]
            /\ replaced' = [ranges |-> {Range(textarea.value, match)}, edited |-> replaced.edited]

RECURSIVE ReplacedFromEnd(_, _, _, _)
\* the loop of replaceAll from match i down to the first: the content and
\* the ranges overwritten on the way
ReplacedFromEnd(content, matches, i, replacement) ==
    IF i = 0 THEN [content |-> content, ranges |-> {}]
    ELSE LET rest == ReplacedFromEnd(Spliced(content, matches[i], replacement), matches, i - 1, replacement)
         IN  [content |-> rest.content, ranges |-> rest.ranges \cup {Range(content, matches[i])}]

replaceAll ==
    /\ Len(search.matches) # 0
    /\ \E replacement \in Replacements :
        LET done == ReplacedFromEnd(textarea.value, search.matches, Len(search.matches), replacement)
        IN  /\ Len(done.content) <= MaxContent
            /\ search' = updateMatchCount([search EXCEPT !.matches = <<>>, !.currentMatchIndex = 0 - 1])
            /\ textarea' = [textarea EXCEPT !.value = done.content, !.lastContent = done.content]
            /\ replaced' = [ranges |-> done.ranges, edited |-> replaced.edited]

SearchNext ==
    \/ (handleFindInput /\ UNCHANGED notSearch)
    \/ (OptionChanges /\ UNCHANGED notSearch)
    \/ (findNext /\ UNCHANGED notSearch)
    \/ (findPrevious /\ UNCHANGED notSearch)
    \/ (closeSearch /\ UNCHANGED notSearch)
    \/ (UserEdits /\ UNCHANGED notSearch)
    \/ (replaceOne /\ UNCHANGED notSearch)
    \/ (replaceAll /\ UNCHANGED notSearch)

\* the Search object as its constructor leaves it, over a textarea of some
\* content
NewSearch ==
    [query |-> "", options |-> [useRegex |-> FALSE, caseSensitive |-> FALSE, wholeWord |-> FALSE],
     matches |-> <<>>, currentMatchIndex |-> 0 - 1, matchCount |-> ""]

SearchStart(content) ==
    /\ search = NewSearch
    /\ textarea = [value |-> content, selection |-> <<0, 0>>, lastContent |-> content]
    /\ replaced = [ranges |-> {}, edited |-> FALSE]

(***************************************************************************)
(* Specifications                                                          *)
(***************************************************************************)
DiffIdle ==
    /\ oldText = <<>> /\ newText = <<>>
    /\ oldLines = <<>> /\ newLines = <<>>
    /\ lcs = <<>> /\ bi = 0 /\ bj = 0
    /\ operations = <<>> /\ dpc = "idle"

StorageStart ==
    /\ isReady = FALSE
    /\ useLocalStorageFallback = FALSE
    /\ ops = <<>>
    /\ documents = [ls |-> <<>>, idb |-> <<>>]
    /\ snapshots = [ls |-> <<>>, idb |-> <<>>]
    /\ settings = [ls |-> <<>>, idb |-> <<>>]
    /\ nextId = 1
    /\ now = 1

StorageIdle == StorageStart /\ calls = 0

HistoryStart ==
    /\ encryption = [passphrase |-> NoPass, isUnlocked |-> FALSE]
    /\ timers = {}
    /\ procs = <<>>
    /\ stopped = {}
    /\ starts = 0
    /\ intervals = <<>>
    /\ cryptoCalls = <<>>

HistoryIdle == HistoryStart

PreviewStart ==
    /\ ptime = 0
    /\ renderTimeout = 0
    /\ ptimers = <<>>
    /\ doRenders = <<>>
    /\ lastContent = <<>>
    /\ container = Html(<<>>)

PreviewIdle == PreviewStart

\* no theme has been set: mermaid and highlight.js have the themes of the page
ThemeIdle == themes = [mermaid |-> "default", hljs |-> "github.min.css", calls |-> <<>>]

TabsIdle ==
    /\ tabs = <<>>
    /\ activeTabId = NoId
    /\ closers = <<>>

ParserIdle ==
    /\ markdown = "" /\ parser = NewParser /\ html = ""
    /\ parserPc = "idle" /\ sanitizer = "none" /\ returned = <<>>

SwStart ==
    /\ swState = "parsed"
    /\ cache = {}
    /\ events = <<>>

SwIdle == SwStart /\ swScope = "/"

\* The Editor ed, of which editorLog holds the calls in log.
EditorStart(ed, log) ==
    /\ editor = ed
    /\ changeEvents = <<>>
    /\ editorCall = [name |-> "new", content |-> "", silent |-> FALSE, changesBefore |-> 0]
    /\ editorCalls = 0
    /\ editorLog = log

EditorIdle == EditorStart(NewEditor, <<Logged("start", NewEditor)>>)

\* The Editor after the user typed "a" and then "b".
AfterTwoEdits ==
    [NewEditor EXCEPT !.value = "ab", !.lastContent = "ab", !.undoStack = <<"", "a">>]

\* The Editor after the user typed "a" and deleted it again and again:
\* maxUndoSize - 1 edits in all.
AfterManyEdits ==
    [NewEditor EXCEPT !.value = "a", !.lastContent = "a",
                      !.undoStack = [k \in 1..(maxUndoSize - 1) |->
                                        IF k % 2 = 1 THEN "" ELSE "a"]]

ScrollIdle ==
    /\ syncTime = 0
    /\ sync = NewSync
    /\ syncTimers = <<>>
    /\ syncLog = <<>>
    /\ scrolls = 0

\* The App when its tabs have been made from the documents in storage
\* (tabs.js lines 404-418, storage.js lines 215-247): no tab has its content.
StoredDocument(id, present, encrypted) ==
    [present |-> present, content |-> NewContent(id, 0), title |-> "title",
     encrypted |-> encrypted]

AppStart(present, encrypted, unlocked) ==
    /\ appTabs = [id \in AppDocs |->
                    [content |-> NullContent, unsaved |-> FALSE, title |-> "title",
                     encrypted |-> encrypted]]
    /\ activeTab = NoTab
    /\ appEditor = [value |-> EmptyContent, readOnly |-> FALSE]
    /\ appDocuments = [id \in AppDocs |-> StoredDocument(id, id = "doc-1" \/ present, encrypted)]
    /\ queue = <<>>
    /\ appTimers = {}
    /\ snapshotsMade = <<>>
    /\ lastSave = [id \in AppDocs |-> NullContent]
    /\ crypto = [encryptionEnabled |-> unlocked, isUnlocked |-> unlocked]
    /\ appSteps = 0

AppIdle == AppStart(TRUE, FALSE, FALSE)

BuildIdle == BuildStart(<<>>, <<>>, 1)

SearchIdle == SearchStart("")

DiffInit == DiffStart /\ StorageIdle /\ ThemeIdle /\ SearchIdle /\ BuildIdle /\ AppIdle /\ ScrollIdle /\ EditorIdle /\ SwIdle /\ HistoryIdle /\ PreviewIdle /\ TabsIdle /\ ParserIdle

SpecDiff == DiffInit /\ [][DiffNext]_vars

StorageInit == StorageStart /\ calls = 0 /\ DiffIdle /\ ThemeIdle /\ SearchIdle /\ BuildIdle /\ AppIdle /\ ScrollIdle /\ EditorIdle /\ SwIdle /\ HistoryIdle /\ PreviewIdle /\ TabsIdle /\ ParserIdle

SpecStorage == StorageInit /\ [][StorageNext]_vars

HistoryInit == HistoryStart /\ StorageIdle /\ DiffIdle /\ ThemeIdle /\ SearchIdle /\ BuildIdle /\ AppIdle /\ ScrollIdle /\ EditorIdle /\ SwIdle /\ PreviewIdle /\ TabsIdle /\ ParserIdle

SpecHistory == HistoryInit /\ [][HistoryNext]_vars

SpecAutoSnapshot == HistoryInit /\ [][AutoSnapshotNext]_vars

SpecPrune == HistoryInit /\ [][PruneNext]_vars

\* What an earlier session left in the stores: one document, encrypted or
\* not, and one snapshot of it, encrypted or not.
PersistedDocument(enc, key) ==
    [id |-> DocA, title |-> TitleTest,
     content |-> IF enc THEN Cipher(key, ContentHello) ELSE Plain(ContentHello),
     encrypted |-> enc, createdAt |-> 0, updatedAt |-> 0]

PersistedSnapshot(enc, key) ==
    [id |-> GeneratedId(0), documentId |-> DocA,
     content |-> IF enc THEN Cipher(key, ContentOk) ELSE Plain(ContentOk),
     encrypted |-> enc, createdAt |-> 0,
     size |-> ContentLength(IF enc THEN Cipher(key, ContentOk) ELSE Plain(ContentOk))]

RestoreInit ==
    /\ HistoryStart /\ DiffIdle /\ ThemeIdle /\ SearchIdle /\ BuildIdle /\ AppIdle /\ ScrollIdle /\ EditorIdle /\ SwIdle /\ PreviewIdle /\ TabsIdle /\ ParserIdle /\ calls = 0
    /\ isReady = FALSE
    /\ useLocalStorageFallback = FALSE
    /\ ops = <<>>
    /\ \E enc \in BOOLEAN :
          documents = [ls |-> <<PersistedDocument(enc, "passphrase-1")>>,
                       idb |-> <<PersistedDocument(enc, "passphrase-1")>>]
    /\ \E enc \in BOOLEAN : \E key \in Passphrases :
          snapshots = [ls |-> <<PersistedSnapshot(enc, key)>>,
                       idb |-> <<PersistedSnapshot(enc, key)>>]
    /\ settings = [ls |-> <<>>, idb |-> <<>>]
    /\ nextId = 1
    /\ now = 1

SpecRestore == RestoreInit /\ [][RestoreNext]_vars

PreviewInit == PreviewStart /\ DiffIdle /\ ThemeIdle /\ SearchIdle /\ BuildIdle /\ AppIdle /\ ScrollIdle /\ EditorIdle /\ SwIdle /\ StorageIdle /\ HistoryIdle /\ TabsIdle /\ ParserIdle

SpecPreview == PreviewInit /\ [][PreviewNext]_vars

\* The documents of an earlier session, as loadFromStorage opens them
\* (lines 404-418): one tab for each, any of them active.
TabDocument(n) ==
    [id |-> DocId(n), title |-> TitleTest, content |-> Plain(ContentOk), encrypted |-> FALSE,
     createdAt |-> 0, updatedAt |-> 0]

TabsInit ==
    /\ DiffIdle /\ ThemeIdle /\ SearchIdle /\ BuildIdle /\ AppIdle /\ ScrollIdle /\ EditorIdle /\ SwIdle /\ HistoryIdle /\ PreviewIdle /\ ParserIdle /\ calls = 0
    /\ isReady = FALSE
    /\ useLocalStorageFallback = FALSE
    /\ ops = <<>>
    /\ \E n \in 1..MaxTabs :
          /\ documents = [ls |-> [i \in 1..n |-> TabDocument(i)],
                          idb |-> [i \in 1..n |-> TabDocument(i)]]
          /\ tabs = [i \in 1..n |-> [id |-> DocId(i), unsaved |-> FALSE]]
          /\ activeTabId = DocId(n)
    /\ closers = <<>>
    /\ snapshots = [ls |-> <<>>, idb |-> <<>>]
    /\ settings = [ls |-> <<>>, idb |-> <<>>]
    /\ nextId = 1
    /\ now = 1

SpecTabs == TabsInit /\ [][TabsNext]_vars

ParserInit ==
    /\ markdown \in ParserInputs /\ parser = NewParser /\ html = ""
    /\ parserPc = "call" /\ sanitizer = "none" /\ returned = <<>>
    /\ DiffIdle /\ ThemeIdle /\ SearchIdle /\ BuildIdle /\ AppIdle /\ ScrollIdle /\ EditorIdle /\ SwIdle /\ StorageIdle /\ HistoryIdle /\ PreviewIdle /\ TabsIdle

SpecParser == ParserInit /\ [][ParserNext]_vars

InlineInit ==
    /\ markdown \in InlineInputs /\ parser = NewParser /\ html = ""
    /\ parserPc = "inline" /\ sanitizer = "none" /\ returned = <<>>
    /\ DiffIdle /\ ThemeIdle /\ SearchIdle /\ BuildIdle /\ AppIdle /\ ScrollIdle /\ EditorIdle /\ SwIdle /\ StorageIdle /\ HistoryIdle /\ PreviewIdle /\ TabsIdle

SpecInline == InlineInit /\ [][InlineNext]_vars

BlocksInit ==
    /\ markdown \in BlockInputs /\ parser = NewParser /\ html = ""
    /\ parserPc = "blocks" /\ sanitizer = "none" /\ returned = <<>>
    /\ DiffIdle /\ ThemeIdle /\ SearchIdle /\ BuildIdle /\ AppIdle /\ ScrollIdle /\ EditorIdle /\ SwIdle /\ StorageIdle /\ HistoryIdle /\ PreviewIdle /\ TabsIdle

SpecBlocks == BlocksInit /\ [][BlocksNext]_vars

RepeatInit ==
    /\ ParserIdle
    /\ DiffIdle /\ ThemeIdle /\ SearchIdle /\ BuildIdle /\ AppIdle /\ ScrollIdle /\ EditorIdle /\ SwIdle /\ StorageIdle /\ HistoryIdle /\ PreviewIdle /\ TabsIdle

SpecRepeat == RepeatInit /\ [][RepeatNext]_vars

SwInit ==
    /\ SwStart /\ swScope \in Scopes
    /\ DiffIdle /\ ThemeIdle /\ SearchIdle /\ BuildIdle /\ AppIdle /\ ScrollIdle /\ EditorIdle /\ StorageIdle /\ HistoryIdle /\ PreviewIdle /\ TabsIdle /\ ParserIdle

SpecSw == SwInit /\ [][SwNext]_vars

EditorInit ==
    /\ \/ EditorIdle
       \/ EditorStart(AfterTwoEdits,
                      <<Logged("start", NewEditor),
                        Logged("input", [NewEditor EXCEPT !.value = "a"]),
                        Logged("input", AfterTwoEdits)>>)
       \/ EditorStart(AfterManyEdits, <<Logged("start", AfterManyEdits)>>)
    /\ DiffIdle /\ ThemeIdle /\ SearchIdle /\ BuildIdle /\ AppIdle /\ ScrollIdle /\ SwIdle /\ StorageIdle /\ HistoryIdle /\ PreviewIdle /\ TabsIdle /\ ParserIdle

SpecEditor == EditorInit /\ [][EditorNext]_vars

SpecEncryption == HistoryInit /\ [][EncryptionNext]_vars

ScrollInit ==
    /\ ScrollIdle /\ EditorIdle
    /\ DiffIdle /\ ThemeIdle /\ SearchIdle /\ BuildIdle /\ AppIdle /\ SwIdle /\ StorageIdle /\ HistoryIdle /\ PreviewIdle /\ TabsIdle /\ ParserIdle

SpecScroll == ScrollInit /\ [][ScrollNext]_vars

AppInit ==
    /\ \E present, encrypted, unlocked \in BOOLEAN : AppStart(present, encrypted, unlocked)
    /\ ScrollIdle /\ EditorIdle
    /\ DiffIdle /\ ThemeIdle /\ SearchIdle /\ BuildIdle /\ SwIdle /\ StorageIdle /\ HistoryIdle /\ PreviewIdle /\ TabsIdle /\ ParserIdle

SpecApp == AppInit /\ [][AppNext]_vars

\* buildDiffFromLCS is called with two line sequences and a matrix of any
\* number of rows.
BuildInit ==
    /\ \E oldL, newL \in BuildLines : \E rows \in 0..(Len(oldL) + 1) :
            BuildStart(oldL, newL, rows)
    /\ AppIdle /\ ScrollIdle /\ EditorIdle
    /\ DiffIdle /\ ThemeIdle /\ SearchIdle /\ SwIdle /\ StorageIdle /\ HistoryIdle /\ PreviewIdle /\ TabsIdle /\ ParserIdle

SpecBuild == BuildInit /\ [][BuildNext]_vars

MathInit ==
    /\ markdown \in MathInputs /\ parser = NewParser /\ html = ""
    /\ parserPc = "inline" /\ sanitizer = "none" /\ returned = <<>>
    /\ DiffIdle /\ ThemeIdle /\ SearchIdle /\ BuildIdle /\ AppIdle /\ ScrollIdle /\ EditorIdle /\ SwIdle /\ StorageIdle /\ HistoryIdle /\ PreviewIdle /\ TabsIdle

SpecMath == MathInit /\ [][InlineNext]_vars

\* The search panel over a textarea of any content.
SearchInit ==
    /\ \E content \in Contents : SearchStart(content)
    /\ DiffIdle /\ ThemeIdle /\ BuildIdle /\ AppIdle /\ ScrollIdle /\ EditorIdle /\ SwIdle /\ StorageIdle /\ HistoryIdle /\ PreviewIdle /\ TabsIdle /\ ParserIdle

SpecSearch == SearchInit /\ [][SearchNext]_vars

\* The preview with its debounced render and the theme switch.
ThemeInit ==
    /\ PreviewStart /\ ThemeIdle
    /\ DiffIdle /\ SearchIdle /\ BuildIdle /\ AppIdle /\ ScrollIdle /\ EditorIdle /\ SwIdle /\ StorageIdle /\ HistoryIdle /\ TabsIdle /\ ParserIdle

SpecTheme == ThemeInit /\ [][ThemeNext]_vars

(***************************************************************************)
(* Claims                                                                  *)
(***************************************************************************)
\* the literal lit, in lower case, is a substring of s under the i flag
Has(s, lit) == \E i \in 1..Len(s) : AtI(s, i, lit)

\* C1 (as claimed): whatever the input, the HTML that parse returns holds
\* none of the substrings <script, onerror= and javascript:, in any case of
\* the letters, both where DOMPurify sanitizes and where the fallback of
\* sanitize runs.
C1_NoDangerousSubstrings ==
    parserPc = "done" =>
        /\ ~Has(html, "<script")
        /\ ~Has(html, "onerror=")
        /\ ~Has(html, "javascript:")

\* What parse keeps of C1 on each path: the fallback leaves none of the
\* three substrings, and DOMPurify leaves no <script.
C1_FallbackLeavesNone ==
    parserPc = "done" =>
        /\ ~Has(html, "<script")
        /\ sanitizer = "fallback" => ~Has(html, "onerror=") /\ ~Has(html, "javascript:")

\* The fallback has replaced an event handler and a javascript: of the input.
C1_FallbackReplaced ==
    /\ parserPc = "done" /\ sanitizer = "fallback"
    /\ Has(markdown, "onerror=") /\ Has(markdown, "javascript:")
    /\ Has(html, "data-blocked-event=") /\ Has(html, "blocked:")

\* The lines of the operations whose type is in kinds, in order.
OpLines(oplist, kinds) ==
    LET sel == SelectSeq(oplist, LAMBDA op : op.type \in kinds)
    IN  [k \in 1..Len(sel) |-> sel[k].line]

\* C11 (as claimed): computeDiff("", "x\ny") returns exactly two operations,
\* the Insert of x and the Insert of y, and no Equal or Delete operation.
C11_TwoInsertsOnly ==
    (dpc = "done" /\ oldText = <<>> /\ newText = TwoLines) =>
        /\ Len(operations) = 2
        /\ operations[1].type = INSERT /\ operations[1].line = <<"x">>
        /\ operations[2].type = INSERT /\ operations[2].line = <<"y">>

\* What computeDiff("", "x\ny") returns: the Delete of the one empty line of
\* "" comes before the two Inserts.
C11_DeleteOfEmptyLine ==
    (dpc = "done" /\ oldText = <<>> /\ newText = TwoLines) =>
        operations = <<DeleteOp(1), InsertOp(1), InsertOp(2)>>

\* C12: computeDiff(A, A) returns only Equal operations, one for each line
\* of A in order, for every text A (the empty text has one empty line).
C12_SameTextAllEqual ==
    (dpc = "done" /\ oldText = newText) =>
        /\ Len(operations) = Len(Split(oldText, NL))
        /\ \A k \in 1..Len(operations) :
              /\ operations[k].type = EQUAL
              /\ operations[k].line = Split(oldText, NL)[k]
              /\ operations[k].oldLine = k /\ operations[k].newLine = k

\* computeDiff(A, A) has returned for a text A of two different lines.
C12_Witness ==
    /\ dpc = "done" /\ oldText = newText
    /\ Len(oldLines) = 2 /\ oldLines[1] # oldLines[2]
    /\ Len(operations) = 2 /\ operations[1].type = EQUAL

\* the entities that escapeHtml writes, escaped once more
DoubleEscaped == { "&amp;amp;", "&amp;lt;", "&amp;gt;", "&amp;quot;", "&amp;#39;" }

\* every < and > of s belongs to a tag <span class="..." data-math="..."> or
\* </span>, and every " to such a tag
OnlySpanMarkup(s) ==
    /\ \A i \in 1..Len(s) :
          CharAt(s, i) = "<" => At(s, i, "<span class=\"math-") \/ At(s, i, "</span>")
    /\ \A i \in 1..Len(s) :
          CharAt(s, i) = ">" =>
              (i > 1 /\ At(s, i - 1, "\">")) \/ (i > 6 /\ At(s, i - 6, "</span>"))
    /\ \A i \in 1..Len(s) :
          CharAt(s, i) = "\"" =>
              \/ (i > 1 /\ At(s, i - 1, "=\""))
              \/ At(s, i, "\" data-math=")
              \/ At(s, i, "\">")

\* C13 (as claimed): parseInline escapes each of & < > " ' of the text once:
\* none of them is raw in the output (every < > " there is of the markup
\* that parseInline wrote) and none is escaped twice, also inside $...$ and
\* $$...$$ and in their data-math attribute.  The texts hold none of the
\* entities, so &amp;lt; in the output is a < escaped twice.
C13_EscapedOnce ==
    parserPc = "done" =>
        /\ \A e \in DoubleEscaped : ~Has(html, e)
        /\ ~Has(html, "'")
        /\ OnlySpanMarkup(html)

\* What parseInline keeps of C13: nothing is raw, and a text without $ is
\* escaped once.
C13_EscapedOnceOutsideMath ==
    parserPc = "done" =>
        /\ ~Has(html, "'")
        /\ OnlySpanMarkup(html)
        /\ ~Has(markdown, "$") => html = escapeHtml(markdown)

\* the positions of the character c in s
Positions(s, c) == { i \in 1..Len(s) : CharAt(s, i) = c }

\* the source lines of the document
SourceLines == split(markdown, "\n")

\* line k of the document holds its content Marker(k)
HasContent(k) == Positions(SourceLines[k], Marker(k)) /= {}

\* C14 (as claimed): parseBlocks emits the blocks in the order of their
\* source lines, an open table, blockquote or list being emitted before any
\* block that starts after it, a fenced code block included: the contents
\* of two lines stand in the output in the order of the lines.
C14_BlocksInOrder ==
    parserPc = "done" =>
        \A j \in 1..Len(SourceLines) : \A k \in 1..Len(SourceLines) :
            ( /\ j < k
              /\ Positions(html, Marker(j)) /= {}
              /\ Positions(html, Marker(k)) /= {} ) =>
                Greatest(Positions(html, Marker(j))) < Least(Positions(html, Marker(k)))

\* What parseBlocks keeps of C14: the order of the lines of a document
\* where no fence follows a table row.
C14_InOrderWithoutFenceAfterTable ==
    (parserPc = "done" /\ ~\E j \in 1..Len(SourceLines) : \E k \in 1..Len(SourceLines) :
            j < k /\ table(SourceLines[j]) /\ SourceLines[k] = Fence) =>
        \A j \in 1..Len(SourceLines) : \A k \in 1..Len(SourceLines) :
            ( /\ j < k
              /\ Positions(html, Marker(j)) /= {}
              /\ Positions(html, Marker(k)) /= {} ) =>
                Greatest(Positions(html, Marker(j))) < Least(Positions(html, Marker(k)))

\* C15 (as claimed): the content of each line that is not blank stands in
\* exactly one emitted block, so it stands once in the output, and a
\* document with a line that is not blank, a lone table row or a blockquote
\* line with empty content included, gives some block.
C15_EveryLineOnce ==
    parserPc = "done" =>
        \A k \in 1..Len(SourceLines) :
            trim(SourceLines[k]) /= "" =>
                /\ html /= ""
                /\ HasContent(k) => Cardinality(Positions(html, Marker(k))) = 1

\* What parseBlocks keeps of C15: no content stands twice in the output,
\* and the content of a line that is no table row stands once.
C15_NoLineTwice ==
    parserPc = "done" =>
        \A k \in 1..Len(SourceLines) :
            /\ Cardinality(Positions(html, Marker(k))) <= 1
            /\ (HasContent(k) /\ ~table(SourceLines[k])) =>
                    Cardinality(Positions(html, Marker(k))) = 1

\* C19 (as claimed): parse is pure: two calls of parse on one Parser with
\* the same argument, whatever calls stand between them, return the same
\* string, mermaid fenced blocks included.
C19_ParsePure ==
    \A j \in 1..Len(returned) : \A k \in 1..Len(returned) :
        returned[j].input = returned[k].input => returned[j].output = returned[k].output

\* What parse keeps of C19: the same result for a document without a
\* mermaid block.
C19_PureWithoutMermaid ==
    \A j \in 1..Len(returned) : \A k \in 1..Len(returned) :
        (returned[j].input = returned[k].input /\ ~Has(returned[j].input, "mermaid")) =>
            returned[j].output = returned[k].output

\* C2: in the sequence returned by computeDiff(A, B) the lines of the Insert
\* and Equal operations, in order, are exactly the lines of B (and joined by
\* newlines give B back), and the lines of the Delete and Equal operations,
\* in order, are exactly the lines of A.
C2_DiffReconstructs ==
    dpc = "done" =>
        /\ OpLines(operations, {INSERT, EQUAL}) = Split(newText, NL)
        /\ Join(OpLines(operations, {INSERT, EQUAL}), NL) = newText
        /\ OpLines(operations, {DELETE, EQUAL}) = Split(oldText, NL)
        /\ Join(OpLines(operations, {DELETE, EQUAL}), NL) = oldText

\* A returned diff of two multi-line texts that holds all three kinds of operation.
C2_Witness ==
    /\ dpc = "done"
    /\ Len(oldLines) >= 2 /\ Len(newLines) >= 2
    /\ \E k \in 1..Len(operations) : operations[k].type = INSERT
    /\ \E k \in 1..Len(operations) : operations[k].type = DELETE
    /\ \E k \in 1..Len(operations) : operations[k].type = EQUAL

\* The document a getDocument(id) enqueued at position k must see: the effect of
\* the operations enqueued before it, applied in enqueue order.
RECURSIVE LastWritten(_, _)
LastWritten(k, id) ==
    IF k = 0 THEN Null
    ELSE IF ops[k].kind = "saveDocument" /\ ops[k].status = "fulfilled" /\ ops[k].result.id = id
    THEN ops[k].result
    ELSE IF ops[k].kind = "deleteDocument" /\ ops[k].status = "fulfilled" /\ ops[k].arg = id
    THEN Null
    ELSE LastWritten(k - 1, id)

\* C3: the operations of one Storage instance execute one at a time in enqueue
\* order: the body of operation k has started only if operation k-1 has
\* settled; so a getDocument enqueued after a saveDocument of the same id
\* returns the saved title and content.
C3_QueueSerializes ==
    \A k \in 1..Len(ops) :
        /\ (k > 1 /\ ops[k].status # "queued") => Settled(ops[k - 1])
        /\ (ops[k].kind = "getDocument" /\ ops[k].status = "fulfilled") =>
                IF LastWritten(k - 1, ops[k].arg) = Null
                THEN ops[k].result = Null
                ELSE /\ ops[k].result # Null
                     /\ ops[k].result.title = LastWritten(k - 1, ops[k].arg).title
                     /\ ops[k].result.content = LastWritten(k - 1, ops[k].arg).content

\* A getDocument called while the saveDocument before it was still pending
\* has returned the saved document.
C3_Witness ==
    /\ Len(ops) = 2
    /\ ops[1].kind = "saveDocument" /\ ops[1].status = "fulfilled"
    /\ ops[2].kind = "getDocument" /\ ops[2].status = "fulfilled" /\ ops[2].pending = 1
    /\ ops[2].result # Null
    /\ ops[2].result.title = TitleTest /\ ops[2].result.content = Plain(ContentHello)

\* The outcomes operation op can have by its own arguments: the validation
\* errors of saveDocument, or a result or a failing storage request.
OwnOutcome(op) ==
    IF op.kind = "saveDocument" /\ op.arg = Null
    THEN op.status = "rejected" /\ op.result = Error("Invalid document object")
    ELSE IF op.kind = "saveDocument" /\ Len(op.arg.title) > MaxTitleLength
    THEN op.status = "rejected" /\ op.result = Error("Title too long (max 200 characters)")
    ELSE \/ op.status = "fulfilled"
         \/ op.status = "rejected" /\ op.result = Error("storage error")

\* C8: a rejection is delivered to the caller of the rejected operation, and
\* an operation enqueued after a rejected one is not blocked and settles with
\* its own outcome.
C8_QueueRecovers ==
    \A k \in 1..Len(ops) :
        /\ Settled(ops[k]) => OwnOutcome(ops[k])
        /\ (k > 1 /\ ops[k - 1].status = "rejected" /\ ops[k].status = "queued") =>
                ENABLED OpStart(k)
        /\ (k > 1 /\ ops[k - 1].status = "rejected" /\ ops[k].status = "ready" /\ isReady) =>
                ENABLED (\/ ExecSaveDocument(k) \/ ExecGetDocument(k) \/ ExecDeleteDocument(k)
                         \/ ExecSaveSnapshotFallback(k) \/ ExecSaveSnapshotCheck(k)
                         \/ ExecGetSnapshot(k) \/ ExecSaveSetting(k) \/ ExecGetSetting(k)
                         \/ PruneRead(k))

\* saveDocument(null) was rejected with its error, and the saveDocument called
\* behind it has stored its document.
C8_Witness ==
    /\ Len(ops) = 2
    /\ ops[1].kind = "saveDocument" /\ ops[1].arg = Null
    /\ ops[1].status = "rejected" /\ ops[1].result = Error("Invalid document object")
    /\ ops[2].kind = "saveDocument" /\ ops[2].status = "fulfilled" /\ ops[2].pending = 1
    /\ Find(documents[Backend], DocId(1)) # Null
    /\ Find(documents[Backend], DocId(1)).title = TitleRecovered

\* C4 (as claimed): a tick of the interval of document A never calls
\* storage.saveSnapshot for A after startAutoSnapshot for another document
\* has cleared A's interval.
C4_NoSnapshotAfterSwitch == \A p \in 1..Len(procs) : ~procs[p].late

\* C5: when restoreSnapshot saves the document, the saved document has the
\* encrypted flag the document had, and its content is a ciphertext of the
\* snapshot's plaintext if the flag is set and that plaintext otherwise, for
\* an encrypted and for a plain snapshot.
C5_RestoreKeepsEncryption ==
    \A p \in 1..Len(procs) :
        (/\ procs[p].kind = "restore"
         /\ procs[p].pc \in {"savingDoc", "done"}
         /\ ops[procs[p].op].kind = "saveDocument") =>
            LET before == ops[procs[p].docOp].result
                plaintext == ops[procs[p].snapOp].result.content.text
                saved == ops[procs[p].op].arg
                stored == ops[procs[p].op].result
            IN  /\ saved.encrypted = before.encrypted
                /\ IF before.encrypted
                   THEN /\ IsCipher(saved.content)
                        /\ \E key \in Passphrases : DecryptOk(saved.content, key)
                        /\ saved.content.text = plaintext
                   ELSE saved.content = Plain(plaintext)
                /\ procs[p].pc = "done" =>
                        /\ ops[procs[p].op].status = "fulfilled"
                        /\ stored.encrypted = saved.encrypted
                        /\ stored.content = saved.content

\* An encrypted snapshot was restored into an encrypted document: the
\* document stored is encrypted and holds a ciphertext of the snapshot's text.
C5_Witness ==
    \E p \in 1..Len(procs) :
        /\ procs[p].kind = "restore" /\ procs[p].pc = "done"
        /\ ops[procs[p].op].kind = "saveDocument"
        /\ ops[procs[p].snapOp].result.encrypted
        /\ ops[procs[p].docOp].result.encrypted
        /\ Find(documents[Backend], DocA).encrypted
        /\ IsCipher(Find(documents[Backend], DocA).content)
        /\ Find(documents[Backend], DocA).content.text = ContentOk

\* C7: createSnapshot calls storage.saveSnapshot with a ciphertext and
\* encrypted = true exactly when encryption was requested, the module was
\* unlocked at the call and encrypt() resolved, and with the plaintext and
\* encrypted = false otherwise; it rejects only if a storage call rejected,
\* so a failure of encrypt() neither rejects it nor skips the save.
C7_EncryptedIffSucceeded ==
    \A p \in 1..Len(procs) :
        (procs[p].kind = "create" /\ procs[p].pc # "encrypting") =>
            IF procs[p].snapOp = 0 THEN FALSE
            ELSE LET arg == ops[procs[p].snapOp].arg
                     enc == /\ procs[p].encrypt
                            /\ procs[p].unlocked
                            /\ procs[p].encOutcome = "ok"
                 IN  /\ ops[procs[p].snapOp].kind = "saveSnapshot"
                     /\ arg.documentId = procs[p].documentId
                     /\ arg.encrypted = enc
                     /\ IF enc
                        THEN /\ DecryptOk(arg.content, procs[p].key)
                             /\ arg.content.text = procs[p].content.text
                        ELSE arg.content = procs[p].content
                     /\ ops[procs[p].snapOp].status = "fulfilled" =>
                            /\ ops[procs[p].snapOp].result.encrypted = enc
                            /\ ops[procs[p].snapOp].result.content = arg.content
                     /\ procs[p].pc = "rejected" => ops[procs[p].op].status = "rejected"

\* encrypt() rejected, and createSnapshot has returned with the plaintext
\* stored as a snapshot that is not encrypted.
C7_Witness ==
    \E p \in 1..Len(procs) :
        /\ procs[p].kind = "create" /\ procs[p].pc = "done"
        /\ procs[p].encrypt /\ procs[p].unlocked /\ procs[p].encOutcome = "failed"
        /\ ops[procs[p].snapOp].status = "fulfilled"
        /\ ~ops[procs[p].snapOp].result.encrypted
        /\ \E i \in 1..Len(snapshots[Backend]) :
              /\ snapshots[Backend][i].id = ops[procs[p].snapOp].result.id
              /\ snapshots[Backend][i].content = Plain(ContentOk)

\* The snapshots created so far: the results of the saveSnapshot calls.
CreatedSnapshots ==
    {ops[k].result : k \in {j \in 1..Len(ops) :
                              ops[j].kind = "saveSnapshot" /\ ops[j].status = "fulfilled"}}

C9_TrailingDebounce ==
    /\ \A t \in 1..Len(ptimers) : ptimers[t].state = "pending" => t = Len(ptimers)
    /\ \A t \in 1..Len(ptimers) :
          Cardinality({r \in 1..Len(doRenders) : doRenders[r].timer = t})
              = IF ptimers[t].state = "fired" THEN 1 ELSE 0
    /\ \A r \in 1..Len(doRenders) :
          /\ doRenders[r].content = ptimers[doRenders[r].timer].content
          /\ doRenders[r].at >= ptimers[doRenders[r].timer].setAt + renderDelay

\* Three render calls, each before the timer of the one before fired: the
\* first two were cancelled and doRender ran once, with the last content.
C9_Witness ==
    /\ Len(ptimers) = 3
    /\ ptimers[1].state = "cleared" /\ ptimers[2].state = "cleared"
    /\ ptimers[3].state = "fired"
    /\ ptimers[1].content # ptimers[3].content
    /\ Len(doRenders) = 1
    /\ doRenders[1].content = ptimers[3].content
    /\ container = Html(ptimers[3].content)

\* C10 (as claimed): once closeTab(id) has deleted the document and gone
\* on, the tab with that id is no longer in the tab list; and while a
\* closeTab(id) whose deleteDocument rejected is the only close made, the
\* tab is still open.
C10_ClosedTabRemoved ==
    \A c \in 1..Len(closers) :
        /\ closers[c].pc \in {"done", "creating"} => closers[c].id \notin TabIds
        /\ (closers[c].pc = "failed" /\ Len(closers) = 1) => closers[c].id \in TabIds

\* C16: the timers map never holds more than one entry, and every interval
\* that was created and is no longer in the map has been cleared; an entry of
\* the map is a running interval of its document.  So after
\* startAutoSnapshot(B) the map holds the entry of B alone.
C16_OneTimerNoOrphan ==
    /\ Cardinality(timers) <= 1
    /\ \A k \in 1..Len(intervals) :
          (~\E t \in timers : t.id = k) => intervals[k].cleared
    /\ \A t \in timers :
          /\ t.id \in 1..Len(intervals)
          /\ ~intervals[t.id].cleared
          /\ intervals[t.id].documentId = t.documentId
    /\ (intervals # <<>> /\ ~intervals[Len(intervals)].cleared)
          => \E t \in timers : t.id = Len(intervals)

\* Two intervals were made, for A then for B: the first is cleared, the
\* second is the one entry of the map.
C16_Witness ==
    /\ Len(intervals) = 2
    /\ intervals[1].documentId = DocA /\ intervals[1].cleared
    /\ intervals[2].documentId = DocB /\ ~intervals[2].cleared
    /\ \E t \in timers : t.documentId = DocB /\ t.id = 2
    /\ Cardinality(timers) = 1

\* C17 as stated: startAutoSnapshot(B) leaves the timer of every other
\* document A unchanged, so no interval of A is ever cleared by a
\* startAutoSnapshot made for another document.
C17_OtherTimersKept ==
    \A k \in 1..Len(intervals) :
        intervals[k].clearedBy = "startAutoSnapshot"
            => intervals[k].clearedFor = intervals[k].documentId

\* C17 amended: startAutoSnapshot(B) stops the timer of every other document:
\* an interval made before the latest startAutoSnapshot is cleared and has no
\* entry in the map, and the one that startAutoSnapshot cleared was cleared
\* by the start that made the next interval.
C17_StartStopsOthers ==
    \A k \in 1..Len(intervals) :
        /\ k < Len(intervals) =>
              /\ intervals[k].cleared
              /\ ~\E t \in timers : t.id = k \/ t.documentId # intervals[Len(intervals)].documentId
        /\ intervals[k].clearedBy = "startAutoSnapshot" =>
              /\ k < Len(intervals)
              /\ intervals[k].clearedFor = intervals[k + 1].documentId

\* The timer of A was running when startAutoSnapshot(B) was called: it is
\* cleared by that call and the map holds B alone.
C17_Witness ==
    /\ Len(intervals) = 2
    /\ intervals[1] = [documentId |-> DocA, cleared |-> TRUE,
                       clearedBy |-> "startAutoSnapshot", clearedFor |-> DocB]
    /\ {t.documentId : t \in timers} = {DocB}

\* restoreSnapshot p rejects at this step, with no storage call made and the
\* stored documents as they were.
RejectsHere(p) ==
    /\ procs'[p].pc = "rejected"
    /\ ops' = ops
    /\ documents' = documents

\* The steps of a restoreSnapshot that has no key to work with.
NoKeySteps ==
    \A p \in 1..Len(procs) :
        LET op == ops[procs[p].op] IN
        /\ (/\ procs[p].pc = "getSnapshot" /\ procs'[p].pc # "getSnapshot"
            /\ op.status = "fulfilled" /\ op.result # Null
            /\ op.result.encrypted
            /\ procs[p].passphrase = NoPass
            /\ ~encryption.isUnlocked) => RejectsHere(p)
        /\ (/\ procs[p].pc = "getDocument" /\ procs'[p].pc # "getDocument"
            /\ op.status = "fulfilled" /\ op.result # Null
            /\ DocumentEncrypted(op.result)
            /\ ~encryption.isUnlocked
            /\ ~PassphraseAccepted(procs[p].passphrase)) => RejectsHere(p)
        /\ (/\ procs[p].pc = "setPassphrase" /\ procs'[p].pc # "setPassphrase"
            /\ ~encryption.isUnlocked) => RejectsHere(p)
        /\ procs[p].pc = "rejected" => procs'[p] = procs[p]

\* C18: restoreSnapshot rejects, calls storage.saveDocument never and leaves
\* the stored document as it was, when the snapshot is encrypted and there
\* is neither a passphrase supplied nor an unlocked module, and when the
\* document is encrypted, the module is locked and no passphrase that
\* setPassphrase accepts is supplied; once rejected it does nothing more.
C18_RejectsWithoutKey == [][NoKeySteps]_vars

\* A plain snapshot is restored into an encrypted document with the module
\* locked and a passphrase that is too short: restoreSnapshot is rejected,
\* no saveDocument call was made and the stored document is the one loaded.
C18_Witness ==
    /\ Len(procs) = 1
    /\ procs[1].kind = "restore" /\ procs[1].pc = "rejected"
    /\ procs[1].passphrase = ShortPass
    /\ ~encryption.isUnlocked
    /\ procs[1].docOp # 0
    /\ ops[procs[1].docOp].status = "fulfilled"
    /\ DocumentEncrypted(ops[procs[1].docOp].result)
    /\ ~ops[procs[1].snapOp].result.encrypted
    /\ \A k \in 1..Len(ops) : ops[k].kind # "saveDocument"
    /\ Find(documents[Backend], DocA) = ops[procs[1].docOp].result

\* An encrypted snapshot, no passphrase supplied and the module locked:
\* restoreSnapshot is rejected before it asks for the document.
C18_WitnessSnapshot ==
    /\ Len(procs) = 1
    /\ procs[1].kind = "restore" /\ procs[1].pc = "rejected"
    /\ procs[1].passphrase = NoPass
    /\ ~encryption.isUnlocked
    /\ ops[procs[1].snapOp].status = "fulfilled"
    /\ ops[procs[1].snapOp].result # Null
    /\ ops[procs[1].snapOp].result.encrypted
    /\ procs[1].docOp = 0
    /\ \A k \in 1..Len(ops) : ops[k].kind # "saveDocument"

\* A fetch event for a GET navigation that was not in the cache and whose
\* network fetch failed, with the index page of the editor in the cache.
OfflineNavigation(e) ==
    /\ events[e].pc = "done"
    /\ events[e].request.method = "GET"
    /\ events[e].request.mode = "navigate"
    /\ ~events[e].hit
    /\ events[e].failed
    /\ events[e].indexCached

\* C20: a GET navigation that is not in the cache and whose network fetch
\* fails is answered with the cached index page, with status 200, and not
\* with the 503 response or with undefined.
C20_OfflineNavigationGetsIndex ==
    \A e \in 1..Len(events) :
        OfflineNavigation(e) =>
            /\ events[e].response # Undefined
            /\ events[e].response # Offline503
            /\ events[e].response = NewResponse(AppIndex, 200)

\* With the worker served from the root of the origin the offline navigation
\* is answered with the cached index page.
C20_IndexAtRoot == swScope = "/" => C20_OfflineNavigationGetsIndex

\* The offline navigation happens with the worker served from the root.
C20_ReachedAtRoot ==
    /\ swScope = "/"
    /\ \E e \in 1..Len(events) :
          OfflineNavigation(e) /\ events[e].response = NewResponse(AppIndex, 200)

\* C21: setContent(content, {silent: true}) leaves the buffer holding
\* content and both stacks empty, and the onChange callback has been called
\* no more often than before the call.
C21_SilentSetContent ==
    (editorCall.name = "setContent" /\ editorCall.silent) =>
        /\ editor.value = editorCall.content
        /\ editor.undoStack = <<>>
        /\ editor.redoStack = <<>>
        /\ Len(changeEvents) = editorCall.changesBefore

\* A silent setContent was the fourth call on an editor whose three calls
\* before it had each called onChange.
C21_Witness ==
    /\ editorCall.name = "setContent" /\ editorCall.silent
    /\ editorCall.content = "read-only load error"
    /\ editor.value = "read-only load error"
    /\ editorCall.changesBefore = 3
    /\ editorCalls = 4

\* What the Encryption instance holds after call c: what the next call
\* found, or what it holds now.
HeldAfter(c) ==
    IF c < Len(cryptoCalls)
    THEN [passphrase |-> cryptoCalls[c + 1].held,
          isUnlocked |-> cryptoCalls[c + 1].unlockedAtCall]
    ELSE encryption

HeldBefore(c) ==
    [passphrase |-> cryptoCalls[c].held, isUnlocked |-> cryptoCalls[c].unlockedAtCall]

\* C22: the instance is unlocked exactly while it holds a passphrase of at
\* least 8 characters; a setPassphrase with a shorter one rejects and leaves
\* what is held as it was; lock clears it; encrypt resolves, with a ciphertext
\* under the passphrase held at the call, only if one was held, and an encrypt
\* or a decrypt without a passphrase made on a locked instance rejects.
C22_EncryptOnlyWhileUnlocked ==
    /\ encryption.isUnlocked <=> Len(encryption.passphrase) >= 8
    /\ \A c \in 1..Len(cryptoCalls) :
        LET call == cryptoCalls[c] IN
        /\ (call.name = "setPassphrase" /\ Len(call.given) < 8) =>
                call.outcome = "rejected" /\ HeldAfter(c) = HeldBefore(c)
        /\ (call.name = "setPassphrase" /\ Len(call.given) >= 8) =>
                HeldAfter(c) = [passphrase |-> call.given, isUnlocked |-> TRUE]
        /\ call.name = "lock" =>
                HeldAfter(c) = [passphrase |-> NoPass, isUnlocked |-> FALSE]
        /\ call.name \in {"encrypt", "decrypt"} => HeldAfter(c) = HeldBefore(c)
        /\ (call.name = "encrypt" /\ call.outcome = "resolved") =>
                /\ call.unlockedAtCall /\ Len(call.held) >= 8
                /\ call.result = Cipher(call.held, call.arg)
        /\ (call.name = "encrypt" /\ ~call.unlockedAtCall) => call.outcome = "rejected"
        /\ (call.name = "decrypt" /\ call.given = NoPass /\ ~call.unlockedAtCall) =>
                call.outcome = "rejected"

\* A passphrase was set, a shorter one refused, the instance locked, and the
\* encrypt made after that was rejected.
C22_Witness ==
    /\ Len(cryptoCalls) = 4
    /\ cryptoCalls[1].name = "setPassphrase" /\ cryptoCalls[1].outcome = "resolved"
    /\ cryptoCalls[2].name = "setPassphrase" /\ cryptoCalls[2].given = ShortPass
    /\ cryptoCalls[2].outcome = "rejected"
    /\ cryptoCalls[3].name = "lock"
    /\ cryptoCalls[4].name = "encrypt" /\ cryptoCalls[4].outcome = "rejected"

\* An encrypt made on the unlocked instance resolved with a ciphertext, and
\* a decrypt without a passphrase made after lock was rejected.
C22_WitnessRoundTrip ==
    /\ Len(cryptoCalls) = 4
    /\ cryptoCalls[2].name = "encrypt" /\ cryptoCalls[2].outcome = "resolved"
    /\ IsCipher(cryptoCalls[2].result)
    /\ cryptoCalls[3].name = "lock"
    /\ cryptoCalls[4].name = "decrypt" /\ cryptoCalls[4].given = NoPass
    /\ cryptoCalls[4].outcome = "rejected"

\* The line count of the largest texts given to computeDiff here.
LargestLineCount == MaxTextLen + 1

\* C23: computeDiff refuses texts above a size ceiling: for the largest
\* texts, at least, it returns without having built the LCS matrix.
C23_LargestRefused ==
    (/\ dpc \in {"backtrack", "done"}
     /\ Len(oldLines) = LargestLineCount
     /\ Len(newLines) = LargestLineCount) => DOMAIN lcs = {}

\* computeDiff builds the whole (m+1) x (n+1) matrix whatever the line
\* counts m and n are.
C23_MatrixAlwaysBuilt ==
    dpc \in {"backtrack", "done"} =>
        DOMAIN lcs = (0..Len(oldLines)) \X (0..Len(newLines))

\* C24: after a scroll of one pane was synchronised to the other, a scroll
\* of the other pane less than 100 ms after the most recent such
\* synchronisation writes no scroll position back.
C24_NoWriteBackWithinLock ==
    \A i, j \in 1..Len(syncLog) :
        (i < j /\ syncLog[i].pane # syncLog[j].pane) =>
            syncLog[j].at - syncLog[i].at >= lockDelay

\* The write back is kept off after a single synchronisation: a pane that
\* was synchronised to once is not written from within 100 ms of it.
C24_HoldsAfterOneSync ==
    \A j \in 1..Len(syncLog) :
        (j = 2 /\ syncLog[1].pane # syncLog[2].pane) =>
            syncLog[2].at - syncLog[1].at >= lockDelay


(***************************************************************************)
(* C25: once no load of a tab's content is pending, the editor shows the   *)
(* content of the tab named by activeTabId, the auto-snapshot timer is     *)
(* keyed by that tab, and no document is stored with the content of        *)
(* another document.  Violated: a load that completes after another tab    *)
(* was activated puts its document into the editor and starts its timer.   *)
(***************************************************************************)
NoLoadPending ==
    \A i \in 1..Len(queue) : ~(queue[i].kind = "getDocument" /\ queue[i].by = "load")

C25_ActiveTabShown ==
    /\ (NoLoadPending /\ activeTab # NoTab /\ ~appEditor.readOnly) =>
            /\ appEditor.value.of \in AppDocs => appEditor.value.of = activeTab
            /\ \A t \in appTimers : t.documentId = activeTab
    /\ \A id \in AppDocs :
            appDocuments[id].content.of \in AppDocs => appDocuments[id].content.of = id

\* The part of C25 about storage alone is violated too: a save made after
\* the late load writes the other document's content under the active id.
C25_NoContentUnderAnotherId ==
    \A id \in AppDocs :
        appDocuments[id].content.of \in AppDocs => appDocuments[id].content.of = id

(***************************************************************************)
(* C26: the error placeholder shown when a tab's content cannot be loaded  *)
(* is never the content of a tab and never the stored content of a         *)
(* document.  Violated: the placeholder is set without silent, so the      *)
(* change callback copies it into the active tab, and a save stores it.    *)
(***************************************************************************)
C26_PlaceholderNotPersisted ==
    \A id \in AppDocs :
        /\ appTabs[id].content # ErrorPlaceholder
        /\ appDocuments[id].content # ErrorPlaceholder

\* The part of C26 about storage alone is violated too.
C26_PlaceholderNotStored ==
    \A id \in AppDocs : appDocuments[id].content # ErrorPlaceholder

(***************************************************************************)
(* C28: the stored content of a document is never older than the content   *)
(* of its last completed content save.  Violated: the rename saves the     *)
(* record it fetched before the content save ran.                          *)
(***************************************************************************)
C28_StoredNotOlderThanLastSave ==
    \A id \in AppDocs :
        ~(/\ lastSave[id] # NullContent
          /\ appDocuments[id].content.of = lastSave[id].of
          /\ appDocuments[id].content.rev < lastSave[id].rev)

(***************************************************************************)
(* C29: every snapshot stored for a document whose encrypted flag is true  *)
(* while the encryption module is unlocked is stored with encrypted=true.  *)
(* Violated: the timer started on tab activation has encrypt = false.      *)
(***************************************************************************)
C29_EncryptedSnapshots ==
    \A i \in 1..Len(snapshotsMade) :
        (snapshotsMade[i].ofEncrypted /\ snapshotsMade[i].unlocked) => snapshotsMade[i].encrypted


(***************************************************************************)
(* C27: once every closeTab call has returned, a tab is open if and only   *)
(* if its document was not deleted.  Violated: closeTab splices the index  *)
(* it took before awaiting deleteDocument, so a second call that overlaps  *)
(* the first removes nothing or removes a neighbour.                       *)
(***************************************************************************)
\* The ids of the documents in storage.
StoredIds == {documents[Backend][i].id : i \in 1..Len(documents[Backend])}

AllClosesReturned ==
    /\ closers # <<>>
    /\ \A c \in 1..Len(closers) : closers[c].pc \in {"done", "failed", "cancelled", "rejected"}

C27_OpenIffNotDeleted ==
    AllClosesReturned => \A id \in TabDocs : (id \in TabIds) <=> (id \in StoredIds)


(***************************************************************************)
(* C30: at every step of the line scan of parseBlocks at most one of the   *)
(* scanner states in-code-fence, in-table, in-blockquote and in-list is    *)
(* active.  Violated: a fence that opens after a table row leaves inTable  *)
(* set while inCodeBlock is set.                                           *)
(***************************************************************************)
RECURSIVE ScanStates(_)
\* The locals of parseBlocks before each iteration of the loop and after it.
ScanStates(st) ==
    IF st.i < Len(st.lines) THEN {st} \cup ScanStates(parseLine(st)) ELSE {st}

ActiveStates(st) ==
    {f \in {"inCodeBlock", "inTable", "inBlockquote", "inList"} : st[f]}

C30_OneScannerState ==
    parserPc = "done" =>
        \A st \in ScanStates(BlocksStart(NewParser, markdown)) :
            Cardinality(ActiveStates(st)) <= 1

\* Without a fence that opens while a table is open, the states exclude
\* each other.
C30_OneStateWithoutFenceInTable ==
    parserPc = "done" =>
        \A st \in ScanStates(BlocksStart(NewParser, markdown)) :
            \/ Cardinality(ActiveStates(st)) <= 1
            \/ ActiveStates(st) = {"inCodeBlock", "inTable"}


(***************************************************************************)
(* C31 (as claimed): in the sequence computeDiff returns, the Insert       *)
(* operations of a change come before its Delete operations, so no Delete  *)
(* is directly followed by an Insert.  Violated: the backtracking takes    *)
(* the Insert branch first on a tie and unshifts it, so the Insert ends up *)
(* after the Delete.                                                       *)
(***************************************************************************)
C31_InsertsBeforeDeletes ==
    dpc = "done" =>
        \A k \in 1..(Len(operations) - 1) :
            ~(operations[k].type = DELETE /\ operations[k + 1].type = INSERT)

\* C31 (amended): in the sequence computeDiff returns, the Delete operations
\* of a change come before its Insert operations: no Insert is directly
\* followed by a Delete.
C31_DeletesBeforeInserts ==
    dpc = "done" =>
        \A k \in 1..(Len(operations) - 1) :
            ~(operations[k].type = INSERT /\ operations[k + 1].type = DELETE)

\* One line replaced by another: the LCS lengths tie at 0 and the diff
\* returned is the Delete of the old line followed by the Insert of the new.
C31_Witness ==
    /\ dpc = "done"
    /\ oldLines = << <<"a">> >> /\ newLines = << <<"b">> >>
    /\ lcs[1, 0] = lcs[0, 1]
    /\ operations = <<DeleteOp(1), InsertOp(1)>>


(***************************************************************************)
(* C32: computeLCS(a, b) returns an (m+1)x(n+1) matrix whose entry [i][j]  *)
(* is the length of a longest common subsequence of the first i elements   *)
(* of a and the first j elements of b, and whose entries do not decrease   *)
(* along either axis.                                                      *)
(***************************************************************************)
RECURSIVE Subsequences(_)
\* every subsequence of s
Subsequences(s) ==
    IF s = <<>> THEN { <<>> }
    ELSE LET shorter == Subsequences(SubSeq(s, 1, Len(s) - 1))
         IN  shorter \cup { Append(x, s[Len(s)]) : x \in shorter }

\* the length of a longest common subsequence, by enumeration
LongestCommon(a, b) ==
    LET common == Subsequences(a) \cap Subsequences(b)
    IN  CHOOSE n \in 0..Len(a) :
            /\ \E x \in common : Len(x) = n
            /\ \A x \in common : Len(x) <= n

C32_MatrixIsLCS ==
    dpc # "call" =>
        /\ DOMAIN lcs = (0..Len(oldLines)) \X (0..Len(newLines))
        /\ \A i \in 0..Len(oldLines), j \in 0..Len(newLines) :
              /\ lcs[i, j] = LongestCommon(SubSeq(oldLines, 1, i), SubSeq(newLines, 1, j))
              /\ i > 0 => lcs[i - 1, j] <= lcs[i, j]
              /\ j > 0 => lcs[i, j - 1] <= lcs[i, j]

\* [a, b] against [b, a]: the last lines differ and the longest common
\* subsequence has one line.
C32_Witness ==
    /\ dpc = "backtrack"
    /\ oldLines = << <<"a">>, <<"b">> >> /\ newLines = << <<"b">>, <<"a">> >>
    /\ lcs[2, 2] = 1 /\ lcs[1, 1] = 0 /\ lcs[2, 1] = 1 /\ lcs[1, 2] = 1


(***************************************************************************)
(* C40 (as claimed): for every matrix passed in, every iteration of the    *)
(* backtracking loop takes one branch that decreases i or j, so the loop   *)
(* ends after at most m + n iterations.  Violated by a matrix that lacks   *)
(* row i: reading lcs[i][j - 1] throws.                                    *)
(***************************************************************************)
C40_EveryIterationDecreases ==
    /\ build.pc # "threw"
    /\ build.iterations + build.i + build.j <= Len(build.oldLines) + Len(build.newLines)

\* C40 (amended): for every matrix that has its m + 1 rows, whatever its
\* entries, every iteration takes one branch that decreases i or j, and
\* the loop returns after at most m + n iterations.
C40_DecreasesGivenRows ==
    build.rows > Len(build.oldLines) =>
        /\ build.pc # "threw"
        /\ build.iterations + build.i + build.j <= Len(build.oldLines) + Len(build.newLines)
        /\ build.iterations <= Len(build.oldLines) + Len(build.newLines)
        /\ build.pc = "returned" =>
              /\ build.i = 0 /\ build.j = 0
              /\ Len(build.operations) = build.iterations

\* Two lines against two other lines with a matrix whose entries are not
\* LCS lengths: the loop has returned after 3 iterations, one of them Equal.
C40_Witness ==
    /\ build.pc = "returned"
    /\ build.rows = 3
    /\ build.oldLines = <<"a", "b">> /\ build.newLines = <<"b", "b">>
    /\ build.iterations = 3
    /\ \E c \in DOMAIN build.entries : build.entries[c] = NoEntry
    /\ \E c \in DOMAIN build.entries : build.entries[c] = 1


(***************************************************************************)
(* C33: the text between $...$ or $$...$$ becomes a span whose data-math   *)
(* attribute holds the formula, and no later pass of parseInline changes   *)
(* the formula in the span or in the attribute.  Violated: the later       *)
(* passes run over the span as over any text, so a formula that holds      *)
(* markup of emphasis, code, emoji or links is rewritten in both places.   *)
(***************************************************************************)
\* the formulas of the inputs: a fragment that holds no $
Formulas == { f \in MathFragments : ~Has(f, "$") }

C33_FormulaUnchanged ==
    parserPc = "done" =>
        \A f \in Formulas :
            /\ markdown = "$" \o f \o "$" => html = MathSpan("math-inline", f)
            /\ markdown = "$$" \o f \o "$$" => html = MathSpan("math-block", f)

\* What holds of C33: the formula becomes the span before any other pass
\* (the span of parseMathInline is what the later passes start from), and a
\* formula that holds none of their markup is left as it is.
C33_PlainFormulaUnchanged ==
    parserPc = "done" =>
        /\ markdown = "$a$" => html = MathSpan("math-inline", "a")
        /\ markdown = "$$a$$" => html = MathSpan("math-block", "a")


(***************************************************************************)
(* C34: a run of table rows is rendered as a table only if its first row   *)
(* is directly followed by a separator row.  Violated: renderTable never   *)
(* requires the separator; any run of two or more rows becomes a table.    *)
(***************************************************************************)
\* the lines where a run of table rows starts
TableRunStarts ==
    { k \in 1..Len(SourceLines) :
        table(SourceLines[k]) /\ (k = 1 \/ ~table(SourceLines[k - 1])) }

C34_TableNeedsSeparator ==
    (parserPc = "done" /\ Has(html, "<table")) =>
        \E k \in TableRunStarts :
            k + 1 <= Len(SourceLines) /\ tableSeparator(SourceLines[k + 1])

\* What holds of C34: a table is rendered only from two rows or more.
C34_TableNeedsTwoRows ==
    (parserPc = "done" /\ Has(html, "<table")) =>
        Cardinality({ k \in 1..Len(SourceLines) : table(SourceLines[k]) }) >= 2


(***************************************************************************)
(* C35: after any sequence of edits, undo, redo and setContent calls the   *)
(* undo stack holds at most maxUndoSize entries, and an edit made when     *)
(* the stack is full discards the oldest entry.                            *)
(***************************************************************************)
\* An edit is recorded on a full stack: the oldest entry goes, the content
\* before the edit is pushed.
PushOnFullStack ==
    (/\ Len(editor.undoStack) = maxUndoSize
     /\ editorCall'.name \in {"input", "compositionend"}
     /\ editor'.lastContent # editor.lastContent)
        => editor'.undoStack = Append(Tail(editor.undoStack), editor.lastContent)

C35_UndoStackBounded ==
    /\ [](Len(editor.undoStack) <= maxUndoSize)
    /\ [][PushOnFullStack]_vars

\* The stack was full with "" as its oldest entry; a further edit has
\* discarded that entry.
C35_Witness ==
    /\ Len(editor.undoStack) = maxUndoSize
    /\ editor.undoStack[1] = "a"
    /\ editorCall.name = "input"
    /\ editorLog[1].value = "a"


(***************************************************************************)
(* C36 (as claimed): after k content-changing edits from the content c0,   *)
(* k undo calls restore c0 and k redo calls after them restore the         *)
(* content after the k-th edit.  Violated: an edit made while a            *)
(* composition is going on is not recorded, and an undo called then pops   *)
(* the entry of an earlier edit.                                           *)
(***************************************************************************)
\* the calls p+1..p+n of editorLog are all named name
Run(p, n, name) == \A q \in (p + 1)..(p + n) : editorLog[q].name = name

\* the calls p+1..p+k are edits that each change the content
Edits(p, k) ==
    /\ Run(p, k, "input")
    /\ \A q \in (p + 1)..(p + k) : editorLog[q].value # editorLog[q - 1].value

\* k edits after entry p, then k undo calls, then (if made) k redo calls
UndoRedoRestores(p, k) ==
    /\ (p + 2 * k <= Len(editorLog) /\ Edits(p, k) /\ Run(p + k, k, "undo"))
            => editorLog[p + 2 * k].value = editorLog[p].value
    /\ (p + 3 * k <= Len(editorLog) /\ Edits(p, k) /\ Run(p + k, k, "undo")
                                    /\ Run(p + 2 * k, k, "redo"))
            => editorLog[p + 3 * k].value = editorLog[p + k].value

C36_UndoRedoRestore ==
    \A p \in 1..Len(editorLog), k \in 1..2 : UndoRedoRestores(p, k)

\* What holds of C36: the same, when no composition is going on during the
\* edits and the undo calls.
C36_RestoreOutsideComposition ==
    \A p \in 1..Len(editorLog), k \in 1..2 :
        (\A q \in p..Min(p + 2 * k, Len(editorLog)) : ~editorLog[q].composing)
            => UndoRedoRestores(p, k)


(***************************************************************************)
(* C37: Search.performSearch with a query that is not a valid regular      *)
(* expression, the regex option on, does not throw: the exception ends in  *)
(* the catch block, which leaves matches empty and currentMatchIndex = -1  *)
(* and shows 'Invalid regex'; the content of the editor stays as it was.   *)
(***************************************************************************)
InvalidQuery(s) == s.query # "" /\ createSearchRegex(s.query, s.options) = SyntaxError

\* a step that runs performSearch
PerformsSearch == handleFindInput \/ OptionChanges \/ (Len(search.matches) = 0 /\ (findNext \/ findPrevious))

C37_InvalidRegexCaught ==
    [][InvalidQuery(search') /\ PerformsSearch =>
            /\ search'.matches = <<>>
            /\ search'.currentMatchIndex = 0 - 1
            /\ search'.matchCount = "Invalid regex"
            /\ textarea' = textarea]_vars

\* an invalid regular expression was searched for in a text that is not
\* empty, and the catch block has run
C37_Witness ==
    /\ InvalidQuery(search) /\ search.options.useRegex
    /\ search.matchCount = "Invalid regex" /\ textarea.value # ""

(***************************************************************************)
(* C38: replaceOne and replaceAll only replace ranges of the current       *)
(* content whose text equals the recorded match text, also after edits     *)
(* made since the last search.                                             *)
(***************************************************************************)
C38_ReplacesOnlyMatches == \A r \in replaced.ranges : r.found = r.recorded

\* What holds: a replace that follows the last search with no edit between
\* them overwrites only text that equals the recorded match text.
C38_ReplacesOnlyMatchesUnedited ==
    ~replaced.edited => \A r \in replaced.ranges : r.found = r.recorded


(***************************************************************************)
(* C39: Preview.updateTheme(theme), called when some content has been      *)
(* rendered, renders that content again: it calls the parser on            *)
(* lastContent and writes the result into the container.                   *)
(***************************************************************************)
C39_ThemeRendersAgain ==
    \A c \in 1..Len(themes.calls) :
        themes.calls[c].content # <<>> => themes.calls[c].parsed /\ themes.calls[c].replaced

\* What holds: no call of updateTheme calls the parser, and each leaves the
\* container as it was.
C39_ThemeNeverRenders ==
    \A c \in 1..Len(themes.calls) :
        ~themes.calls[c].parsed /\ ~themes.calls[c].replaced

====
